---- MODULE Spec2Model ----
(***************************************************************************)
(* A model of the dgmjs editor core: the object store, the transaction and *)
(* undo/redo machinery, and the bridge between the store and a replicated  *)
(* Yjs map (the encoder of local transactions and the decoder of remote    *)
(* change events).                                                         *)
(*                                                                         *)
(* Peer A is a full editor (store, transform, bridge).  Two peers observe   *)
(* the replicated map and decode its change events into a store of their   *)
(* own: peerB with applyYjsEvent of the yjs utilities, peerP with the      *)
(* observeDeep callback of YjsSyncPlugin.                                  *)
(***************************************************************************)
EXTENDS Integers, Sequences, FiniteSets, TLC

\* ------------------------------------------------------------------ bounds
\* number of shapes peer A may ever create (ids are allocated in order)
MaxShapes == 3
\* number of editing commands peer A may issue
MaxOps == 4
\* number of committed replication transactions that may wait for delivery
MaxNet == 2
\* number of local edits the observing peers may make
MaxBOps == 1
\* number of pointer moves of one drag
MaxMoves == 2
\* number of calls of Editor.activateHandler
MaxCalls == 5
\* number of events given to a manipulator or to the text editor
MaxEvents == 4
\* the default of maxIteration of resolveAllConstraints, and the largest value
\* it is called with
MaxIteration == 3

\* ------------------------------------------------------------------ values
\* null / no entity
NoId == -1
\* the root entity (the page) has id 0; shapes have ids 1..MaxShapes
Root == 0
Shapes == 1..MaxShapes
Ids == {Root} \cup Shapes

\* One unit of a `parent:order` key.  Keys are rationals k / Scale, held as
\* the integer k, so that the midpoint of two keys is exact for as many
\* halvings as there are commands.
Scale == 2 ^ (2 * MaxOps + 2)

\* JavaScript values of a `parent:order` entry: a number, NaN or undefined
Num(v) == [k |-> "num", v |-> v]
NaN == [k |-> "nan", v |-> 0]
Undef == [k |-> "undef", v |-> 0]
IsNum(x) == x.k = "num"

\* x + y and x / 2 in JavaScript arithmetic (undefined is coerced to NaN)
JsAdd(x, y) == IF IsNum(x) /\ IsNum(y) THEN Num(x.v + y.v) ELSE NaN
\* (a key that Scale cannot hold exactly is marked, never rounded)
Inexact == [k |-> "inexact", v |-> 0]
JsHalf(x) == IF IsNum(x) THEN (IF x.v % 2 = 0 THEN Num(x.v \div 2) ELSE Inexact) ELSE NaN
\* x >= y in JavaScript (false when either side is NaN or undefined)
JsGe(x, y) == IsNum(x) /\ IsNum(y) /\ x.v >= y.v

\* ------------------------------------------------------------- sequences
IndexOf(s, e) == IF \E i \in 1..Len(s) : s[i] = e
                 THEN (CHOOSE i \in 1..Len(s) : s[i] = e /\ \A j \in 1..(i-1) : s[j] # e) - 1
                 ELSE -1

\* Array.prototype.splice(pos, 0, e) with a 0-based, in-range position
InsertAt(s, pos, e) == SubSeq(s, 1, pos) \o <<e>> \o SubSeq(s, pos + 1, Len(s))

\* Array.prototype.splice(pos, 1); a negative pos counts from the end
RemoveAt(s, pos) ==
    LET p == IF pos < 0 THEN (IF Len(s) + pos < 0 THEN 0 ELSE Len(s) + pos) ELSE pos
    IN  IF p >= Len(s) THEN s
        ELSE SubSeq(s, 1, p) \o SubSeq(s, p + 2, Len(s))

Contains(s, e) == \E i \in 1..Len(s) : s[i] = e

AppendNew(s, e) == IF Contains(s, e) THEN s ELSE Append(s, e)

Reverse(s) == [i \in 1..Len(s) |-> s[Len(s) + 1 - i]]

\* ------------------------------------------------------------------ store
\* value fields of an entity
Fields == {"left", "width", "height"}
Types == {"Page", "Box", "Group", "Connector", "Mirror"}

\* reference fields of an entity: the reference of a shape, the two ends of a
\* connector, the subject of a mirror
RefFields == {"reference", "head", "tail", "subject"}

\* ActionKind values used by the modelled commands
ActionNames == {"INSERT", "DELETE", "MOVE", "UPDATE", "UNGROUP", "DUPLICATE",
                "BRING_TO_FRONT", "SEND_TO_BACK"}

\* Store.getById
getById(st, id) == IF id \in st.idx THEN id ELSE NoId

\* Store.addToIndex / Store.removeFromIndex (index only, no tree side effect)
addToIndex(st, o) == [st EXCEPT !.idx = @ \cup {o}]
removeFromIndex(st, o) == [st EXCEPT !.idx = @ \ {o}]

\* the store of a new document: the page alone
InitStore ==
    [idx       |-> {Root},
     type      |-> [i \in Ids |-> IF i = Root THEN "Page" ELSE "Box"],
     parent    |-> [i \in Ids |-> NoId],
     children  |-> [i \in Ids |-> <<>>],
     val       |-> [left |-> [i \in Ids |-> 0], width |-> [i \in Ids |-> 0],
                    height |-> [i \in Ids |-> 0]],
     reference |-> [i \in Ids |-> NoId],
     head      |-> [i \in Ids |-> NoId],
     tail      |-> [i \in Ids |-> NoId],
     subject   |-> [i \in Ids |-> NoId],
     constraints |-> [i \in Ids |-> <<>>]]

\* obj[field] of a reference field, and the store after obj[field] = value
RefOf(st, field, o) ==
    CASE field = "reference" -> st.reference[o]
      [] field = "head" -> st.head[o]
      [] field = "tail" -> st.tail[o]
      [] field = "subject" -> st.subject[o]

SetRef(st, field, o, value) ==
    CASE field = "reference" -> [st EXCEPT !.reference[o] = value]
      [] field = "head" -> [st EXCEPT !.head[o] = value]
      [] field = "tail" -> [st EXCEPT !.tail[o] = value]
      [] field = "subject" -> [st EXCEPT !.subject[o] = value]

\* ------------------------------------------------------------ mutations
Mut(type, obj, parent, field, oldValue, newValue, position, oldPosition) ==
    [type |-> type, obj |-> obj, parent |-> parent, field |-> field,
     oldValue |-> oldValue, newValue |-> newValue,
     position |-> position, oldPosition |-> oldPosition]

\* Mutation.apply: the forward effect of one mutation on the store; every
\* case first checks the store's state, so a replay changes nothing
ApplyMut(st, m) ==
    CASE m.type = "CREATE" -> addToIndex(st, m.obj)
      [] m.type = "DELETE" -> removeFromIndex(st, m.obj)
      [] m.type = "ASSIGN" -> [st EXCEPT !.val[m.field][m.obj] = m.newValue]
      [] m.type = "ASSIGN_REF" -> SetRef(st, m.field, m.obj, m.newValue)
      [] m.type = "INSERT_CHILD" ->
            IF Contains(st.children[m.parent], m.obj) THEN st
            ELSE [st EXCEPT !.children[m.parent] = InsertAt(@, m.position, m.obj),
                            !.parent[m.obj] = m.parent]
      [] m.type = "REMOVE_CHILD" ->
            IF ~Contains(st.children[m.parent], m.obj) THEN st
            ELSE [st EXCEPT !.children[m.parent] = RemoveAt(@, IndexOf(@, m.obj)),
                            !.parent[m.obj] = NoId]
      [] m.type = "REORDER_CHILD" ->
            IF ~Contains(st.children[m.parent], m.obj) THEN st
            ELSE [st EXCEPT !.children[m.parent] =
                     InsertAt(RemoveAt(@, IndexOf(@, m.obj)), m.position, m.obj)]

\* Mutation.unapply: the logical opposite of one mutation
UnapplyMut(st, m) ==
    CASE m.type = "CREATE" -> removeFromIndex(st, m.obj)
      [] m.type = "DELETE" -> addToIndex(st, m.obj)
      [] m.type = "ASSIGN" -> [st EXCEPT !.val[m.field][m.obj] = m.oldValue]
      [] m.type = "ASSIGN_REF" -> SetRef(st, m.field, m.obj, m.oldValue)
      [] m.type = "INSERT_CHILD" ->
            IF ~Contains(st.children[m.parent], m.obj) THEN st
            ELSE [st EXCEPT !.children[m.parent] = RemoveAt(@, IndexOf(@, m.obj)),
                            !.parent[m.obj] = NoId]
      [] m.type = "REMOVE_CHILD" ->
            IF Contains(st.children[m.parent], m.obj) THEN st
            ELSE [st EXCEPT !.children[m.parent] = InsertAt(@, m.position, m.obj),
                            !.parent[m.obj] = m.parent]
      [] m.type = "REORDER_CHILD" ->
            IF ~Contains(st.children[m.parent], m.obj) THEN st
            ELSE [st EXCEPT !.children[m.parent] =
                     InsertAt(RemoveAt(@, IndexOf(@, m.obj)), m.oldPosition, m.obj)]

RECURSIVE ApplyMuts(_, _)
\* Transaction.apply: the mutations first to last
ApplyMuts(st, muts) ==
    IF muts = <<>> THEN st ELSE ApplyMuts(ApplyMut(st, Head(muts)), Tail(muts))

RECURSIVE UnapplyMuts(_, _)
\* Transaction.unapply: the mutations last to first
UnapplyMuts(st, muts) ==
    IF muts = <<>> THEN st
    ELSE UnapplyMuts(UnapplyMut(st, muts[Len(muts)]), SubSeq(muts, 1, Len(muts) - 1))

RECURSIVE ApplyTxs(_, _)
\* Action.apply: the transactions first to last
ApplyTxs(st, txs) ==
    IF txs = <<>> THEN st ELSE ApplyTxs(ApplyMuts(st, Head(txs)), Tail(txs))

RECURSIVE UnapplyTxs(_, _)
\* Action.unapply: the transactions last to first
UnapplyTxs(st, txs) ==
    IF txs = <<>> THEN st
    ELSE UnapplyTxs(UnapplyMuts(st, txs[Len(txs)]), SubSeq(txs, 1, Len(txs) - 1))

\* ---------------------------------------------------------- transaction
\* A transaction under construction: the store it has mutated so far and the
\* mutations it has recorded.
NewTx(st) == [st |-> st, muts |-> <<>>]

\* records mutation m and applies it
TxPush(tx, m) == [st |-> ApplyMut(tx.st, m), muts |-> Append(tx.muts, m)]

\* Transaction.appendObj
appendObj(tx, o) ==
    IF o \in tx.st.idx THEN tx
    ELSE TxPush(tx, Mut("CREATE", o, NoId, "", 0, 0, 0, 0))

\* Transaction.deleteObj
deleteObj(tx, o) ==
    IF o \notin tx.st.idx THEN tx
    ELSE TxPush(tx, Mut("DELETE", o, NoId, "", 0, 0, 0, 0))

\* Transaction.assign
assign(tx, o, field, value) ==
    IF tx.st.val[field][o] = value THEN tx
    ELSE TxPush(tx, Mut("ASSIGN", o, NoId, field, tx.st.val[field][o], value, 0, 0))

\* Transaction.assignRef
assignRef(tx, o, field, value) ==
    IF RefOf(tx.st, field, o) = value THEN tx
    ELSE TxPush(tx, Mut("ASSIGN_REF", o, NoId, field, RefOf(tx.st, field, o), value, 0, 0))

\* Transaction.insertChild with a position
insertChildAt(tx, parent, o, position) ==
    IF Contains(tx.st.children[parent], o) THEN tx
    ELSE TxPush(tx, Mut("INSERT_CHILD", o, parent, "", 0, 0, position, 0))

\* Transaction.insertChild without a position: the child is appended
insertChild(tx, parent, o) == insertChildAt(tx, parent, o, Len(tx.st.children[parent]))

\* Transaction.removeChild
removeChild(tx, parent, o) ==
    IF ~Contains(tx.st.children[parent], o) THEN tx
    ELSE TxPush(tx, Mut("REMOVE_CHILD", o, parent, "", 0, 0,
                        IndexOf(tx.st.children[parent], o), 0))

\* Transaction.reorderChild
reorderChild(tx, parent, o, position) ==
    IF \/ ~Contains(tx.st.children[parent], o)
       \/ IndexOf(tx.st.children[parent], o) = position
    THEN tx
    ELSE TxPush(tx, Mut("REORDER_CHILD", o, parent, "", 0, 0, position,
                        IndexOf(tx.st.children[parent], o)))

\* ----------------------------------------------------------------- macros
RECURSIVE TraverseFrom(_, _, _)
\* Obj.traverse: the entities below (and including) the ones in `todo`,
\* depth first, parents before children; `fuel` bounds the depth
TraverseFrom(st, todo, fuel) ==
    IF todo = <<>> \/ fuel = 0 THEN <<>>
    ELSE <<Head(todo)>> \o TraverseFrom(st, st.children[Head(todo)], fuel - 1)
                        \o TraverseFrom(st, Tail(todo), fuel)

traverse(st, o) == TraverseFrom(st, <<o>>, MaxShapes + 1)

\* changeParent as it would be without the removal from the old parent
changeParentKeepOld(tx, o, parent) ==
    IF parent = NoId THEN tx ELSE insertChild(tx, parent, o)

\* changeParent (macro.ts)
changeParent(tx, o, parent) ==
    IF parent = NoId THEN tx
    ELSE LET t1 == IF tx.st.parent[o] # NoId
                   THEN removeChild(tx, tx.st.parent[o], o) ELSE tx
         IN  insertChild(t1, parent, o)

\* addShape (macro.ts)
addShape(tx, shape, parent) == changeParent(appendObj(tx, shape), shape, parent)

\* addPage (macro.ts)
addPage(tx, doc, page) == changeParent(appendObj(tx, page), page, doc)

\* removePage (macro.ts)
removePage(tx, page) ==
    IF tx.st.parent[page] # NoId
    THEN deleteObj(removeChild(tx, tx.st.parent[page], page), page)
    ELSE tx

\* reorderPage as it would be if the page were always left where it is
reorderPageNowhere(tx, page, position) == tx

\* reorderPage (macro.ts)
reorderPage(tx, page, position) ==
    IF /\ tx.st.parent[page] # NoId
       /\ position >= 0
       /\ position < Len(tx.st.children[tx.st.parent[page]])
    THEN reorderChild(tx, tx.st.parent[page], page, position)
    ELSE tx

\* moveSingleShape (macro.ts), in one dimension
moveSingleShape(tx, shape, dx) == assign(tx, shape, "left", tx.st.val["left"][shape] + dx)

RECURSIVE MoveAll(_, _, _)
MoveAll(tx, targets, dx) ==
    IF targets = <<>> THEN tx
    ELSE MoveAll(moveSingleShape(tx, Head(targets), dx), Tail(targets), dx)

\* moveShapes (macro.ts) for one shape of a page without connectors: the shape
\* and its descendants are moved, then the shape is put into the container
moveShapes(tx, shape, dx, container) ==
    LET moved == MoveAll(tx, traverse(tx.st, shape), dx)
    IN  IF container # NoId /\ moved.st.parent[shape] # container
        THEN changeParent(moved, shape, container)
        ELSE moved

RECURSIVE ClearReferers(_, _, _)
ClearReferers(tx, referers, shape) ==
    IF referers = <<>> THEN tx
    ELSE ClearReferers(
            IF tx.st.reference[Head(referers)] = shape
            THEN assignRef(tx, Head(referers), "reference", NoId) ELSE tx,
            Tail(referers), shape)

RECURSIVE SelectConnectorsTo(_, _, _)
SelectConnectorsTo(st, objs, shape) ==
    IF objs = <<>> THEN <<>>
    ELSE (IF /\ st.type[Head(objs)] = "Connector"
             /\ (st.head[Head(objs)] = shape \/ st.tail[Head(objs)] = shape)
          THEN <<Head(objs)>> ELSE <<>>) \o SelectConnectorsTo(st, Tail(objs), shape)

\* getAllConnectorsTo(page, [shape]): the connectors of the page, in traversal
\* order, whose head or tail is the shape
getAllConnectorsTo(st, shape) == SelectConnectorsTo(st, traverse(st, Root), shape)

\* the loop of deleteSingleShape over the edges: each is removed from its
\* parent, if it has one, and deleted
RECURSIVE DeleteEdges(_, _)
DeleteEdges(tx, edges) ==
    IF edges = <<>> THEN tx
    ELSE LET edge == Head(edges)
             t1 == IF tx.st.parent[edge] # NoId
                   THEN removeChild(tx, tx.st.parent[edge], edge) ELSE tx
         IN  DeleteEdges(deleteObj(t1, edge), Tail(edges))

\* the loop of deleteSingleShape over getAllMirrors(doc, [shape])
RECURSIVE ClearMirrors(_, _, _)
ClearMirrors(tx, mirrors, shape) ==
    IF mirrors = <<>> THEN tx
    ELSE ClearMirrors(
            IF tx.st.subject[Head(mirrors)] = shape
            THEN assignRef(tx, Head(mirrors), "subject", NoId) ELSE tx,
            Tail(mirrors), shape)

\* deleteSingleShape (macro.ts)
deleteSingleShape(tx, shape) ==
    LET t0 == DeleteEdges(tx, getAllConnectorsTo(tx.st, shape))
        t1 == ClearReferers(t0, traverse(t0.st, Root), shape)
        tm == ClearMirrors(t1, traverse(t1.st, Root), shape)
        t2 == IF tm.st.parent[shape] # NoId
              THEN removeChild(tm, tm.st.parent[shape], shape) ELSE tm
    IN  deleteObj(t2, shape)

\* deleteShapes (macro.ts): deleteSingleShape for each shape in turn
RECURSIVE deleteShapes(_, _)
deleteShapes(tx, shapes) ==
    IF shapes = <<>> THEN tx
    ELSE deleteShapes(deleteSingleShape(tx, Head(shapes)), Tail(shapes))

RECURSIVE UngroupChildren(_, _, _)
UngroupChildren(tx, kids, parent) ==
    IF kids = <<>> THEN tx
    ELSE UngroupChildren(changeParent(tx, Head(kids), parent), Tail(kids), parent)

\* ungroupShapes as it would be if the reversed copy of the children were
\* walked from its first element to its last
ungroupShapesReversed(tx, group) ==
    LET children == Reverse(tx.st.children[group])
        t1 == UngroupChildren(tx, children, tx.st.parent[group])
    IN  deleteSingleShape(t1, group)

\* ungroupShapes (macro.ts) for one group: `children` is the reversed copy of
\* the group's children, walked from its last element to its first
ungroupShapes(tx, group) ==
    LET children == Reverse(tx.st.children[group])
        t1 == UngroupChildren(tx, Reverse(children), tx.st.parent[group])
    IN  deleteSingleShape(t1, group)

\* ungroupShapes (macro.ts) for a list of shapes: the groups among them are
\* ungrouped in turn, the other shapes are passed over
RECURSIVE ungroupEach(_, _)
ungroupEach(tx, shapes) ==
    IF shapes = <<>> THEN tx
    ELSE ungroupEach(IF tx.st.type[Head(shapes)] = "Group"
                     THEN ungroupShapes(tx, Head(shapes)) ELSE tx,
                     Tail(shapes))

\* bringToFront / sendToBack (macro.ts)
bringToFront(tx, shape) ==
    IF tx.st.parent[shape] = NoId THEN tx
    ELSE reorderChild(tx, tx.st.parent[shape], shape,
                      Len(tx.st.children[tx.st.parent[shape]]) - 1)

sendToBack(tx, shape) ==
    IF tx.st.parent[shape] = NoId THEN tx
    ELSE reorderChild(tx, tx.st.parent[shape], shape, 0)

\* bringForward / sendBackward (macro.ts)
bringForward(tx, shape) ==
    IF tx.st.parent[shape] = NoId THEN tx
    ELSE LET len == Len(tx.st.children[tx.st.parent[shape]])
             pos == IndexOf(tx.st.children[tx.st.parent[shape]], shape)
         IN  IF pos < len - 1
             THEN reorderChild(tx, tx.st.parent[shape], shape, pos + 1) ELSE tx

sendBackward(tx, shape) ==
    IF tx.st.parent[shape] = NoId THEN tx
    ELSE LET pos == IndexOf(tx.st.children[tx.st.parent[shape]], shape)
         IN  IF pos > 0
             THEN reorderChild(tx, tx.st.parent[shape], shape, pos - 1) ELSE tx

\* ---------------------------------------------------------- constraints
\* The resolvers of the constraint manager. `follow` keeps the left of a shape
\* at the left of the shape it refers to, `inset` keeps it one unit to the
\* right of it; each reports a change when it assigned a new value. Any other
\* id has no resolver: constraintManager.get throws, resolveShapeConstraints
\* logs the error and goes on.
ConstraintIds == {"follow", "inset", "unknown"}

\* `follow` that assigns the new left and reports no change
keepLeftSilent(tx, shape, offset) ==
    LET ref == tx.st.reference[shape]
        t1  == IF ref # NoId /\ ref \in tx.st.idx
               THEN assign(tx, shape, "left", tx.st.val["left"][ref] + offset)
               ELSE tx
    IN  [tx |-> t1, changed |-> FALSE]

keepLeft(tx, shape, offset) ==
    LET ref == tx.st.reference[shape]
        t1  == IF ref # NoId /\ ref \in tx.st.idx
               THEN assign(tx, shape, "left", tx.st.val["left"][ref] + offset)
               ELSE tx
    IN  [tx |-> t1, changed |-> t1 # tx]

constraintFn(id, tx, shape) ==
    CASE id = "follow" -> keepLeft(tx, shape, 0)
      [] id = "inset" -> keepLeft(tx, shape, 1)
      [] OTHER -> [tx |-> tx, changed |-> FALSE]

\* resolveShapeConstraints without the try/catch: the first constraint whose
\* resolver is missing ends the resolution of the shape
RECURSIVE ResolveEachAbort(_, _, _, _)
ResolveEachAbort(tx, shape, cs, changed) ==
    IF cs = <<>> \/ Head(cs) \notin {"follow", "inset"}
    THEN [tx |-> tx, changed |-> changed]
    ELSE LET r == constraintFn(Head(cs), tx, shape)
         IN  ResolveEachAbort(r.tx, shape, Tail(cs), r.changed \/ changed)

\* resolveShapeConstraints (macro.ts): the constraints of a shape in turn
RECURSIVE ResolveEach(_, _, _, _)
ResolveEach(tx, shape, cs, changed) ==
    IF cs = <<>> THEN [tx |-> tx, changed |-> changed]
    ELSE LET r == constraintFn(Head(cs), tx, shape)
         IN  ResolveEach(r.tx, shape, Tail(cs), r.changed \/ changed)

resolveShapeConstraints(tx, shape) ==
    ResolveEach(tx, shape, tx.st.constraints[shape], FALSE)

\* page.traverse(s => changed = resolveShapeConstraints(...) || changed)
RECURSIVE TraverseResolve(_, _, _)
TraverseResolve(tx, objs, changed) ==
    IF objs = <<>> THEN [tx |-> tx, changed |-> changed]
    ELSE LET r == resolveShapeConstraints(tx, Head(objs))
         IN  TraverseResolve(r.tx, Tail(objs), r.changed \/ changed)

\* the loop of resolveAllConstraints that goes on to maxIteration traversals
\* whatever a traversal reports
RECURSIVE ResolveLoopNoStop(_, _, _, _)
ResolveLoopNoStop(tx, maxIteration, i, reports) ==
    IF i >= maxIteration
    THEN [tx |-> tx, reports |-> reports, result |-> reports[Len(reports)],
          warned |-> reports[Len(reports)]]
    ELSE LET r == TraverseResolve(tx, traverse(tx.st, Root), FALSE)
         IN  ResolveLoopNoStop(r.tx, maxIteration, i + 1, Append(reports, r.changed))

\* the loop of resolveAllConstraints that takes back the mutations of its
\* traversals when they are used up without a fixpoint
RECURSIVE ResolveLoopRollBack(_, _, _, _)
ResolveLoopRollBack(tx, maxIteration, i, reports) ==
    IF i >= maxIteration
    THEN [tx |-> [st |-> UnapplyMuts(tx.st, tx.muts), muts |-> <<>>],
          reports |-> reports, result |-> TRUE, warned |-> TRUE]
    ELSE LET r == TraverseResolve(tx, traverse(tx.st, Root), FALSE)
         IN  IF ~r.changed
             THEN [tx |-> r.tx, reports |-> Append(reports, FALSE), result |-> FALSE,
                   warned |-> FALSE]
             ELSE ResolveLoopRollBack(r.tx, maxIteration, i + 1, Append(reports, TRUE))

\* the loop of resolveAllConstraints from iteration i on; reports lists what
\* each traversal so far reported, warned tells whether console.warn was
\* called
RECURSIVE ResolveLoop(_, _, _, _)
ResolveLoop(tx, maxIteration, i, reports) ==
    IF i >= maxIteration
    THEN [tx |-> tx, reports |-> reports, result |-> TRUE, warned |-> TRUE]
    ELSE LET r == TraverseResolve(tx, traverse(tx.st, Root), FALSE)
         IN  IF ~r.changed
             THEN [tx |-> r.tx, reports |-> Append(reports, FALSE), result |-> FALSE,
                   warned |-> FALSE]
             ELSE ResolveLoop(r.tx, maxIteration, i + 1, Append(reports, TRUE))

\* resolveAllConstraints (macro.ts): the transaction afterwards, the report of
\* each traversal, the value returned and whether the warning was logged
resolveAllConstraints(tx, maxIteration) == ResolveLoop(tx, maxIteration, 0, <<>>)

\* the transaction of a command after its call of resolveAllConstraints
resolved(tx) == resolveAllConstraints(tx, MaxIteration).tx

\* ------------------------------------------------------- replicated map
\* `undefined` for the `parent` entry of a replicated field map
UndefId == -2

\* A replicated map (Y.Map of Y.Map): m holds the field map of every key (or
\* NoYObj), keys the order in which Y.Map.forEach visits the keys (the order of
\* their first insertion), gen counts the field maps created so far (each
\* `new Y.Map()` is a new instance), log lists the writes of the replication
\* transaction in progress.
NoYObj == [present |-> FALSE, gen |-> 0, type |-> "Box",
           val |-> [left |-> 0, width |-> 0, height |-> 0],
           reference |-> NoId, head |-> NoId, tail |-> NoId, subject |-> NoId,
           parent |-> UndefId, order |-> Undef]

EmptyY == [m |-> [i \in Ids |-> NoYObj], keys |-> <<>>, gen |-> 0, log |-> <<>>]

KeyWrite(id) == [k |-> "key", id |-> id, gen |-> 0, f |-> ""]
FieldWrite(id, gen, f) == [k |-> "field", id |-> id, gen |-> gen, f |-> f]

\* Y.Map.set(key, yObj) on the outer map
YSet(y, id, yobj) ==
    [m    |-> [y.m EXCEPT ![id] = [yobj EXCEPT !.present = TRUE, !.gen = y.gen + 1]],
     keys |-> AppendNew(y.keys, id),
     gen  |-> y.gen + 1,
     log  |-> Append(y.log, KeyWrite(id))]

\* Y.Map.delete(key) on the outer map
YDelete(y, id) ==
    IF ~y.m[id].present THEN y
    ELSE [y EXCEPT !.m[id] = NoYObj, !.log = Append(@, KeyWrite(id))]

\* yObj.set(field, value) for a value field
YSetVal(y, id, f, v) ==
    [y EXCEPT !.m[id].val[f] = v, !.log = Append(@, FieldWrite(id, y.m[id].gen, f))]

\* yObj.set(field, id) for a reference field
YSetRef(y, id, f, v) ==
    [y EXCEPT !.m[id] = CASE f = "reference" -> [@ EXCEPT !.reference = v]
                          [] f = "head" -> [@ EXCEPT !.head = v]
                          [] f = "tail" -> [@ EXCEPT !.tail = v]
                          [] f = "subject" -> [@ EXCEPT !.subject = v],
              !.log = Append(@, FieldWrite(id, y.m[id].gen, f))]

\* yObj.set("parent", id)
YSetParent(y, id, v) ==
    [y EXCEPT !.m[id].parent = v,
              !.log = Append(@, FieldWrite(id, y.m[id].gen, "parent"))]

\* yObj.set("parent:order", order)
YSetOrder(y, id, v) ==
    [y EXCEPT !.m[id].order = v,
              !.log = Append(@, FieldWrite(id, y.m[id].gen, "parent:order"))]

\* yObj.delete("parent"); deleting an entry that is not there writes nothing
YDelParent(y, id) ==
    IF y.m[id].parent = UndefId THEN y
    ELSE [y EXCEPT !.m[id].parent = UndefId,
                   !.log = Append(@, FieldWrite(id, y.m[id].gen, "parent"))]

\* yObj.delete("parent:order")
YDelOrder(y, id) ==
    IF y.m[id].order = Undef THEN y
    ELSE [y EXCEPT !.m[id].order = Undef,
                   !.log = Append(@, FieldWrite(id, y.m[id].gen, "parent:order"))]

\* Obj.toJSON as a replicated field map: the type, the value fields, the
\* reference as an id and the parent as an id (null when there is none)
toJSON(st, o) ==
    [present |-> TRUE, gen |-> 0, type |-> st.type[o],
     val |-> [left |-> st.val["left"][o], width |-> st.val["width"][o],
              height |-> st.val["height"][o]],
     reference |-> st.reference[o], head |-> st.head[o], tail |-> st.tail[o],
     subject |-> st.subject[o], parent |-> st.parent[o], order |-> Undef]

\* ------------------------------------------- encoder of the yjs utilities
RECURSIVE YChildrenIn(_, _, _)
YChildrenIn(y, keys, parentId) ==
    IF keys = <<>> THEN <<>>
    ELSE (IF y.m[Head(keys)].present /\ y.m[Head(keys)].parent = parentId
          THEN <<Head(keys)>> ELSE <<>>) \o YChildrenIn(y, Tail(keys), parentId)

\* getYChildren: the field maps whose `parent` is parentId, in forEach order
getYChildren(y, parentId) == YChildrenIn(y, y.keys, parentId)

\* an array element, `undefined` outside the array (0-based index)
OrderAt(orders, i) == IF i >= 0 /\ i < Len(orders) THEN orders[i + 1] ELSE Undef

\* getParentOrder of the yjs utilities
getParentOrder(y, parentId, position) ==
    LET siblings == getYChildren(y, parentId)
        siblingOrders == [i \in 1..Len(siblings) |-> y.m[siblings[i]].order]
    IN  IF Len(siblingOrders) = 0 THEN Num(0)
        ELSE IF position = 0 THEN JsAdd(OrderAt(siblingOrders, 0), Num(0 - Scale))
        ELSE IF position >= Len(siblingOrders)
             THEN JsAdd(OrderAt(siblingOrders, Len(siblingOrders) - 1), Num(Scale))
        ELSE JsHalf(JsAdd(OrderAt(siblingOrders, position - 1),
                          OrderAt(siblingOrders, position)))

\* objToYObj: the field map of an entity, with its order key when it has a parent
objToYObj(y, st, o) ==
    LET json == toJSON(st, o)
    IN  IF st.parent[o] # NoId
        THEN [json EXCEPT !.order =
                getParentOrder(y, st.parent[o], IndexOf(st.children[st.parent[o]], o))]
        ELSE json

\* the INSERT_CHILD case of applyTransaction (REMOVE_CHILD of unapplyTransaction)
YAttach(y, m) ==
    IF y.m[m.parent].present /\ y.m[m.obj].present
    THEN LET y1 == YSetParent(y, m.obj, m.parent)
         IN  YSetOrder(y1, m.obj, getParentOrder(y1, m.parent, m.position))
    ELSE y

\* YDetach that deletes `parent` and leaves `parent:order`
YDetachParentOnly(y, m) ==
    IF y.m[m.parent].present /\ y.m[m.obj].present
    THEN YDelParent(y, m.obj)
    ELSE y

\* the REMOVE_CHILD case of applyTransaction (INSERT_CHILD of unapplyTransaction)
YDetach(y, m) ==
    IF y.m[m.parent].present /\ y.m[m.obj].present
    THEN YDelOrder(YDelParent(y, m.obj), m.obj)
    ELSE y

\* applyTransaction with the REORDER_CHILD case filled in: the child gets the
\* order key of its new position
applyMutationReordering(y, st, m) ==
    CASE m.type = "CREATE" -> YSet(y, m.obj, objToYObj(y, st, m.obj))
      [] m.type = "DELETE" -> YDelete(y, m.obj)
      [] m.type = "ASSIGN" ->
            IF y.m[m.obj].present THEN YSetVal(y, m.obj, m.field, m.newValue) ELSE y
      [] m.type = "ASSIGN_REF" ->
            IF y.m[m.obj].present /\ m.newValue # NoId
            THEN YSetRef(y, m.obj, m.field, m.newValue) ELSE y
      [] m.type = "INSERT_CHILD" -> YAttach(y, m)
      [] m.type = "REMOVE_CHILD" -> YDetach(y, m)
      [] m.type = "REORDER_CHILD" ->
            IF y.m[m.parent].present /\ y.m[m.obj].present
            THEN YSetOrder(y, m.obj, getParentOrder(y, m.parent, m.position)) ELSE y

\* one iteration of the loop of applyTransaction
applyMutation(y, st, m) ==
    CASE m.type = "CREATE" -> YSet(y, m.obj, objToYObj(y, st, m.obj))
      [] m.type = "DELETE" -> YDelete(y, m.obj)
      [] m.type = "ASSIGN" ->
            IF y.m[m.obj].present THEN YSetVal(y, m.obj, m.field, m.newValue) ELSE y
      [] m.type = "ASSIGN_REF" ->
            IF y.m[m.obj].present /\ m.newValue # NoId
            THEN YSetRef(y, m.obj, m.field, m.newValue) ELSE y
      [] m.type = "INSERT_CHILD" -> YAttach(y, m)
      [] m.type = "REMOVE_CHILD" -> YDetach(y, m)
      [] m.type = "REORDER_CHILD" -> y

\* one iteration of the loop of unapplyTransaction
unapplyMutation(y, st, m) ==
    CASE m.type = "CREATE" -> YDelete(y, m.obj)
      [] m.type = "DELETE" -> YSet(y, m.obj, objToYObj(y, st, m.obj))
      [] m.type = "ASSIGN" ->
            IF y.m[m.obj].present THEN YSetVal(y, m.obj, m.field, m.oldValue) ELSE y
      [] m.type = "ASSIGN_REF" ->
            IF y.m[m.obj].present /\ m.oldValue # NoId
            THEN YSetRef(y, m.obj, m.field, m.oldValue) ELSE y
      [] m.type = "INSERT_CHILD" -> YDetach(y, m)
      [] m.type = "REMOVE_CHILD" -> YAttach(y, m)
      [] m.type = "REORDER_CHILD" -> y

RECURSIVE applyTransaction(_, _, _)
\* applyTransaction: the mutations first to last
applyTransaction(y, st, muts) ==
    IF muts = <<>> THEN y
    ELSE applyTransaction(applyMutation(y, st, Head(muts)), st, Tail(muts))

RECURSIVE unapplyTransaction(_, _, _)
\* unapplyTransaction: the mutations last to first
unapplyTransaction(y, st, muts) ==
    IF muts = <<>> THEN y
    ELSE unapplyTransaction(unapplyMutation(y, st, muts[Len(muts)]), st,
                            SubSeq(muts, 1, Len(muts) - 1))

\* ------------------------------------------------ encoder of YjsSyncPlugin
\* an element of parent.children, NoId (undefined) outside the array
ChildAt(st, parent, i) ==
    IF i >= 0 /\ i < Len(st.children[parent]) THEN st.children[parent][i + 1] ELSE NoId

\* yObjMap.get(obj.id).get("parent:order"), Undef when the field map is missing
\* (the caller tests the field map before it reads the order)
YOrderOf(y, o) == IF o # NoId /\ y.m[o].present THEN y.m[o].order ELSE Undef
YHas(y, o) == o # NoId /\ y.m[o].present

\* getParentOrder of plugin-yjs-sync.ts
PluginGetParentOrder(y, st, parent, position) ==
    LET objPrev == IF position > 0 THEN ChildAt(st, parent, position - 1) ELSE NoId
        objNext == IF position < Len(st.children[parent])
                   THEN ChildAt(st, parent, position + 1) ELSE NoId
    IN  IF YHas(y, objNext) /\ YHas(y, objPrev)
        THEN JsHalf(JsAdd(YOrderOf(y, objPrev), YOrderOf(y, objNext)))
        ELSE IF YHas(y, objNext) THEN JsAdd(YOrderOf(y, objNext), Num(0 - Scale))
        ELSE IF YHas(y, objPrev) THEN JsAdd(YOrderOf(y, objPrev), Num(Scale))
        ELSE Num(0)

\* YjsSyncPlugin.objToYMap
objToYMap(st, o) == toJSON(st, o)

PluginAttach(y, st, m) ==
    IF y.m[m.parent].present /\ y.m[m.obj].present
    THEN LET y1 == YSetParent(y, m.obj, m.parent)
         IN  YSetOrder(y1, m.obj, PluginGetParentOrder(y1, st, m.parent, m.position))
    ELSE y

\* one iteration of the loop of YjsSyncPlugin.applyTransaction
PluginApplyMutation(y, st, m) ==
    CASE m.type = "CREATE" -> YSet(y, m.obj, objToYMap(st, m.obj))
      [] m.type = "DELETE" -> YDelete(y, m.obj)
      [] m.type = "ASSIGN" ->
            IF y.m[m.obj].present THEN YSetVal(y, m.obj, m.field, m.newValue) ELSE y
      [] m.type = "ASSIGN_REF" ->
            IF y.m[m.obj].present /\ m.newValue # NoId
            THEN YSetRef(y, m.obj, m.field, m.newValue) ELSE y
      [] m.type = "INSERT_CHILD" -> PluginAttach(y, st, m)
      [] m.type = "REMOVE_CHILD" -> YDetach(y, m)
      [] m.type = "REORDER_CHILD" -> y

\* one iteration of the loop of YjsSyncPlugin.unapplyTransaction
PluginUnapplyMutation(y, st, m) ==
    CASE m.type = "CREATE" -> YDelete(y, m.obj)
      [] m.type = "DELETE" -> YSet(y, m.obj, objToYMap(st, m.obj))
      [] m.type = "ASSIGN" ->
            IF y.m[m.obj].present THEN YSetVal(y, m.obj, m.field, m.oldValue) ELSE y
      [] m.type = "ASSIGN_REF" ->
            IF y.m[m.obj].present /\ m.oldValue # NoId
            THEN YSetRef(y, m.obj, m.field, m.oldValue) ELSE y
      [] m.type = "INSERT_CHILD" -> YDetach(y, m)
      [] m.type = "REMOVE_CHILD" -> PluginAttach(y, st, m)
      [] m.type = "REORDER_CHILD" -> y

RECURSIVE PluginApplyTransactionBackwards(_, _, _)
\* applyTransaction with its loop running from the last mutation to the first
PluginApplyTransactionBackwards(y, st, muts) ==
    IF muts = <<>> THEN y
    ELSE PluginApplyTransactionBackwards(PluginApplyMutation(y, st, muts[Len(muts)]), st,
                                         SubSeq(muts, 1, Len(muts) - 1))

RECURSIVE PluginApplyTransaction(_, _, _)
\* YjsSyncPlugin.applyTransaction
PluginApplyTransaction(y, st, muts) ==
    IF muts = <<>> THEN y
    ELSE PluginApplyTransaction(PluginApplyMutation(y, st, Head(muts)), st, Tail(muts))

RECURSIVE PluginUnapplyTransactionForwards(_, _, _)
\* unapplyTransaction with its loop running from the first mutation to the last
PluginUnapplyTransactionForwards(y, st, muts) ==
    IF muts = <<>> THEN y
    ELSE PluginUnapplyTransactionForwards(PluginUnapplyMutation(y, st, Head(muts)), st,
                                          Tail(muts))

RECURSIVE PluginUnapplyTransaction(_, _, _)
\* YjsSyncPlugin.unapplyTransaction
PluginUnapplyTransaction(y, st, muts) ==
    IF muts = <<>> THEN y
    ELSE PluginUnapplyTransaction(PluginUnapplyMutation(y, st, muts[Len(muts)]), st,
                                  SubSeq(muts, 1, Len(muts) - 1))

\* ------------------------------------------------- bridge: local listeners
\* The editor of peer A as one record: store, undo (undoHistory), redo
\* (redoHistory), action (the open action), yStore and yObjMap (the replicated
\* map as written by the two encoders), net (the committed replication
\* transactions not yet seen by the peers), nTransact (yDoc.transact calls made
\* by the listeners) and nBatches (events emitted by the transform).
NoAction == [name |-> "NONE", txs |-> <<>>]

\* yDoc.transact(f): the writes made by f become one replication transaction
\* (one update for the peers); a transaction without writes sends nothing
YTransact(T, y1, p1) ==
    [T EXCEPT !.yStore = [y1 EXCEPT !.log = <<>>],
              !.yObjMap = [p1 EXCEPT !.log = <<>>],
              !.net = IF y1.log # <<>> \/ p1.log # <<>>
                      THEN Append(@, [y |-> y1, p |-> p1, batch |-> T.nBatches]) ELSE @,
              !.nTransact = @ + 1]

RECURSIVE UnapplyAll(_, _, _)
\* the loop of the onUndo listener: the transactions last to first
UnapplyAll(y, st, txs) ==
    IF txs = <<>> THEN y
    ELSE UnapplyAll(unapplyTransaction(y, st, txs[Len(txs)]), st, SubSeq(txs, 1, Len(txs) - 1))

RECURSIVE ApplyAll(_, _, _)
\* the loop of the onRedo listener: the transactions first to last
ApplyAll(y, st, txs) ==
    IF txs = <<>> THEN y ELSE ApplyAll(applyTransaction(y, st, Head(txs)), st, Tail(txs))

RECURSIVE PluginUnapplyAll(_, _, _)
PluginUnapplyAll(y, st, txs) ==
    IF txs = <<>> THEN y
    ELSE PluginUnapplyAll(PluginUnapplyTransaction(y, st, txs[Len(txs)]), st,
                          SubSeq(txs, 1, Len(txs) - 1))

RECURSIVE PluginApplyAll(_, _, _)
PluginApplyAll(y, st, txs) ==
    IF txs = <<>> THEN y
    ELSE PluginApplyAll(PluginApplyTransaction(y, st, Head(txs)), st, Tail(txs))

\* listen(): the onTransaction listener
OnTransactionListener(T, tx) ==
    YTransact(T, applyTransaction(T.yStore, T.store, tx),
                 PluginApplyTransaction(T.yObjMap, T.store, tx))

RECURSIVE UndoEachInOwnTransact(_, _)
\* an onUndo listener that opens a replication transaction per transaction of
\* the action instead of one around the loop
UndoEachInOwnTransact(T, txs) ==
    IF txs = <<>> THEN T
    ELSE UndoEachInOwnTransact(
            YTransact(T, unapplyTransaction(T.yStore, T.store, txs[Len(txs)]),
                         PluginUnapplyTransaction(T.yObjMap, T.store, txs[Len(txs)])),
            SubSeq(txs, 1, Len(txs) - 1))

OnUndoListenerPerTx(T, act) == UndoEachInOwnTransact(T, act.txs)

\* listen(): the onUndo listener
OnUndoListener(T, act) ==
    YTransact(T, UnapplyAll(T.yStore, T.store, act.txs),
                 PluginUnapplyAll(T.yObjMap, T.store, act.txs))

\* listen(): the onRedo listener
OnRedoListener(T, act) ==
    YTransact(T, ApplyAll(T.yStore, T.store, act.txs),
                 PluginApplyAll(T.yObjMap, T.store, act.txs))

\* -------------------------------------------------------------- transform
\* an event of the transform reaches its listeners
Emit(T) == [T EXCEPT !.nBatches = @ + 1]

\* Transform.startAction
startAction(T, name) == [T EXCEPT !.action = [name |-> name, txs |-> <<>>]]

\* Transform.transact: the transaction has run against the store; it is kept
\* in the open action when it recorded a mutation
transact(T, tx) ==
    IF tx.muts = <<>> THEN T
    ELSE [T EXCEPT !.store = tx.st, !.action.txs = Append(@, tx.muts)]

RECURSIVE ForwardTxsLastFirst(_, _)
\* the transactions of a closed action forwarded from the last to the first
ForwardTxsLastFirst(T, txs) ==
    IF txs = <<>> THEN T
    ELSE ForwardTxsLastFirst(OnTransactionListener(Emit(T), txs[Len(txs)]),
                             SubSeq(txs, 1, Len(txs) - 1))

RECURSIVE ForwardTxs(_, _)
\* the transactions of a closed action are forwarded in submission order
ForwardTxs(T, txs) ==
    IF txs = <<>> THEN T
    ELSE ForwardTxs(OnTransactionListener(Emit(T), Head(txs)), Tail(txs))

\* Transform.endAction: the action is pushed onto the undo history, the redo
\* history is cleared, and the transactions are forwarded
endAction(T) ==
    IF T.action = NoAction THEN T
    ELSE ForwardTxs([T EXCEPT !.undo = Append(@, T.action), !.redo = <<>>,
                              !.action = NoAction],
                    T.action.txs)

\* Transform.cancelAction: the open action is inverted and recorded nowhere
cancelAction(T) ==
    IF T.action = NoAction THEN T
    ELSE [T EXCEPT !.store = UnapplyTxs(T.store, T.action.txs), !.action = NoAction]

\* Transform.undo
undo(T) ==
    IF T.undo = <<>> THEN T
    ELSE LET act == T.undo[Len(T.undo)]
         IN  OnUndoListener(
                Emit([T EXCEPT !.undo = SubSeq(@, 1, Len(@) - 1),
                               !.store = UnapplyTxs(T.store, act.txs),
                               !.redo = Append(@, act)]),
                act)

\* Transform.redo
redo(T) ==
    IF T.redo = <<>> THEN T
    ELSE LET act == T.redo[Len(T.redo)]
         IN  OnRedoListener(
                Emit([T EXCEPT !.redo = SubSeq(@, 1, Len(@) - 1),
                               !.store = ApplyTxs(T.store, act.txs),
                               !.undo = Append(@, act)]),
                act)

\* Transform.mergeAction: the two top entries of the undo history become one
mergeAction(T) ==
    IF Len(T.undo) < 2 THEN T
    ELSE LET action1 == T.undo[Len(T.undo)]
             action2 == T.undo[Len(T.undo) - 1]
         IN  [T EXCEPT !.undo = Append(SubSeq(@, 1, Len(@) - 2),
                                       [name |-> action2.name,
                                        txs |-> action2.txs \o action1.txs])]

\* --------------------------------------------- decoder of the yjs utilities
\* The store of an observing peer is a heap of objects: an object is known by its
\* reference (its place in the heap), and the index maps an id to a reference.
\* NoRef is null.  An object removed from the index stays in the heap, as it
\* stays alive in JavaScript while something still points to it.
NoRef == 0

\* values of the reference field of an object of a peer: null, an object, or
\* the id itself when the field was overwritten with the replicated value
BNull == [k |-> "null", v |-> 0]
BObj(r) == [k |-> "obj", v |-> r]
BRaw(id) == IF id = NoId THEN BNull ELSE [k |-> "id", v |-> id]

\* the editor of an observing peer: its replica of the map (y), its store
\* (heap, idx), its undo and redo history, the number of events its
\* transform has emitted, and the changes its decoder handled in the last
\* update it received (events)
InitB(y) ==
    [y    |-> y,
     heap |-> <<[id |-> Root, type |-> "Page",
                 val |-> [left |-> 0, width |-> 0, height |-> 0],
                 reference |-> BNull, head |-> BNull, tail |-> BNull, subject |-> BNull,
                 parent |-> NoRef, children |-> <<>>]>>,
     idx  |-> [i \in Ids |-> IF i = Root THEN 1 ELSE NoRef],
     undo |-> <<>>, redo |-> <<>>, emitted |-> 0, events |-> {}]

\* Store.getById on an observing peer
getByIdB(B, id) == IF id \in Ids THEN B.idx[id] ELSE NoRef

\* Array.prototype.findIndex(o => o >= parentOrder), 0-based, -1 if none
FindIndexGe(orders, parentOrder) ==
    IF \E i \in 1..Len(orders) : JsGe(orders[i], parentOrder)
    THEN (CHOOSE i \in 1..Len(orders) :
            /\ JsGe(orders[i], parentOrder)
            /\ \A j \in 1..(i - 1) : ~JsGe(orders[j], parentOrder)) - 1
    ELSE -1

\* Array.prototype.splice(position, 0, e): a position past the end appends
SpliceIn(seq, position, e) ==
    IF position >= Len(seq) THEN Append(seq, e) ELSE InsertAt(seq, position, e)

\* a reference field resolved through the index: the entity, null when the
\* index does not hold the id
Resolved(B, id) == IF getByIdB(B, id) # NoRef THEN BObj(getByIdB(B, id)) ELSE BNull

\* yObjToObj followed by resolveRefs: a new object without parent and
\* children; a reference to an id missing from the index is null
yObjToObj(B, yObj, id) ==
    [id |-> id, type |-> yObj.type, val |-> yObj.val,
     reference |-> Resolved(B, yObj.reference),
     head |-> Resolved(B, yObj.head), tail |-> Resolved(B, yObj.tail),
     subject |-> Resolved(B, yObj.subject),
     parent |-> NoRef, children |-> <<>>]

\* setParent as it would be without the removal from the old parent's children
setParentKeepOld(B, y, obj, parentId, parentOrder) ==
    LET parent == getByIdB(B, parentId)
    IN  IF parentId \in Ids /\ parent # NoRef
        THEN LET B2 == [B EXCEPT !.heap[obj].parent = parent]
                 siblings == getYChildren(y, parentId)
                 siblingOrders == [i \in 1..Len(siblings) |-> y.m[siblings[i]].order]
                 position == FindIndexGe(siblingOrders, parentOrder)
             IN  IF IndexOf(B2.heap[parent].children, obj) < 0
                 THEN [B2 EXCEPT !.heap[parent].children =
                         IF position < 0 THEN Append(@, obj) ELSE SpliceIn(@, position, obj)]
                 ELSE B2
        ELSE [B EXCEPT !.heap[obj].parent = NoRef]

\* setParent
setParent(B, y, obj, parentId, parentOrder) ==
    LET old == B.heap[obj].parent
        B1 == IF old # NoRef /\ B.heap[old].id # parentId
              THEN [B EXCEPT !.heap[old].children = RemoveAt(@, IndexOf(@, obj))]
              ELSE B
        parent == getByIdB(B1, parentId)
    IN  IF parentId \in Ids /\ parent # NoRef
        THEN LET B2 == [B1 EXCEPT !.heap[obj].parent = parent]
                 siblings == getYChildren(y, parentId)
                 siblingOrders == [i \in 1..Len(siblings) |-> y.m[siblings[i]].order]
                 position == FindIndexGe(siblingOrders, parentOrder)
             IN  IF IndexOf(B2.heap[parent].children, obj) < 0
                 THEN [B2 EXCEPT !.heap[parent].children =
                         IF position < 0 THEN Append(@, obj) ELSE SpliceIn(@, position, obj)]
                 ELSE B2
        ELSE [B1 EXCEPT !.heap[obj].parent = NoRef]

\* applyYjsEvent for a key of the map as it would be without the test whether
\* the index already holds the id of an added key
applyKeyChangeNoTest(B, y, key, change) ==
    CASE change = "add" ->
            IF y.m[key].present
            THEN LET obj == Len(B.heap) + 1
                     B1 == [B EXCEPT !.heap = Append(@, yObjToObj(B, y.m[key], key)),
                                     !.idx[key] = obj]
                 IN  setParent(B1, y, obj, y.m[key].parent, y.m[key].order)
            ELSE B
      [] change = "delete" ->
            LET obj == getByIdB(B, key)
                par == IF obj = NoRef THEN NoRef ELSE B.heap[obj].parent
                B1 == IF par # NoRef
                      THEN [B EXCEPT !.heap[par].children = RemoveAt(@, IndexOf(@, obj)),
                                     !.heap[obj].parent = NoRef]
                      ELSE B
            IN  IF obj # NoRef THEN [B1 EXCEPT !.idx[key] = NoRef] ELSE B1
      [] OTHER -> B

\* applyYjsEvent for a key of the map as it would be if a removed key only
\* dropped the entity from the index
applyKeyChangeIndexOnly(B, y, key, change) ==
    CASE change = "add" ->
            IF getByIdB(B, key) = NoRef /\ y.m[key].present
            THEN LET obj == Len(B.heap) + 1
                     B1 == [B EXCEPT !.heap = Append(@, yObjToObj(B, y.m[key], key)),
                                     !.idx[key] = obj]
                 IN  setParent(B1, y, obj, y.m[key].parent, y.m[key].order)
            ELSE B
      [] change = "delete" -> [B EXCEPT !.idx[key] = NoRef]
      [] OTHER -> B

\* applyYjsEvent, target = yStore, one entry of event.changes.keys
applyKeyChange(B, y, key, change) ==
    CASE change = "add" ->
            IF getByIdB(B, key) = NoRef /\ y.m[key].present
            THEN LET obj == Len(B.heap) + 1
                     B1 == [B EXCEPT !.heap = Append(@, yObjToObj(B, y.m[key], key)),
                                     !.idx[key] = obj]
                 IN  setParent(B1, y, obj, y.m[key].parent, y.m[key].order)
            ELSE B
      [] change = "delete" ->
            LET obj == getByIdB(B, key)
                par == IF obj = NoRef THEN NoRef ELSE B.heap[obj].parent
                B1 == IF par # NoRef
                      THEN [B EXCEPT !.heap[par].children = RemoveAt(@, IndexOf(@, obj)),
                                     !.heap[obj].parent = NoRef]
                      ELSE B
            IN  IF obj # NoRef THEN [B1 EXCEPT !.idx[key] = NoRef] ELSE B1
      [] OTHER -> B

\* applyYjsEvent, target = a field map, one key of event.keysChanged
\* applyFieldKey that overwrites `head` and `tail` with the replicated id
\* instead of looking it up in the index
applyFieldKeyRawEnds(B, y, id, obj, key) ==
    CASE key = "parent" -> setParent(B, y, obj, y.m[id].parent, y.m[id].order)
      [] key = "head" -> [B EXCEPT !.heap[obj].head = BRaw(y.m[id].head)]
      [] key = "tail" -> [B EXCEPT !.heap[obj].tail = BRaw(y.m[id].tail)]
      [] key = "parent:order" -> B
      [] key = "reference" -> [B EXCEPT !.heap[obj].reference = BRaw(y.m[id].reference)]
      [] key = "subject" -> [B EXCEPT !.heap[obj].subject = BRaw(y.m[id].subject)]
      [] OTHER -> [B EXCEPT !.heap[obj].val[key] = y.m[id].val[key]]

applyFieldKey(B, y, id, obj, key) ==
    CASE key = "parent" -> setParent(B, y, obj, y.m[id].parent, y.m[id].order)
      [] key = "head" -> [B EXCEPT !.heap[obj].head = Resolved(B, y.m[id].head)]
      [] key = "tail" -> [B EXCEPT !.heap[obj].tail = Resolved(B, y.m[id].tail)]
      [] key = "reference" -> [B EXCEPT !.heap[obj].reference = BRaw(y.m[id].reference)]
      [] key = "subject" -> [B EXCEPT !.heap[obj].subject = BRaw(y.m[id].subject)]
      [] key = "parent:order" -> B
      [] OTHER -> [B EXCEPT !.heap[obj].val[key] = y.m[id].val[key]]

RECURSIVE applyFieldKeys(_, _, _, _, _)
applyFieldKeys(B, y, id, obj, keys) ==
    IF keys = <<>> THEN B
    ELSE applyFieldKeys(applyFieldKey(B, y, id, obj, Head(keys)), y, id, obj, Tail(keys))

\* applyYjsEvent for a field map as it would be if the decoded fields were
\* assigned through the transform: the transform emits a transaction
applyObjEventTransacted(B, y, id, keys, hasUpdate) ==
    IF hasUpdate /\ getByIdB(B, id) # NoRef /\ y.m[id].present
    THEN [applyFieldKeys(B, y, id, getByIdB(B, id), keys) EXCEPT !.emitted = @ + 1]
    ELSE B

\* applyYjsEvent, target = the field map of id: the keys are decoded when one
\* of the changes is an update of a key and the entity is in the index
applyObjEvent(B, y, id, keys, hasUpdate) ==
    IF hasUpdate /\ getByIdB(B, id) # NoRef /\ y.m[id].present
    THEN applyFieldKeys(B, y, id, getByIdB(B, id), keys)
    ELSE B

\* ------------------------------------------------- remote change events
\* What Y.Map.observeDeep reports to a peer for the replication transactions
\* it receives at once: yOld is the replica before, yNew the replica after,
\* log the writes in between.

RECURSIVE ConcatLogs(_, _)
\* the writes of the first k waiting replication transactions
ConcatLogs(waiting, k) ==
    IF k = 0 THEN <<>> ELSE ConcatLogs(waiting, k - 1) \o waiting[k].y.log

RECURSIVE PluginConcatLogs(_, _)
PluginConcatLogs(waiting, k) ==
    IF k = 0 THEN <<>> ELSE PluginConcatLogs(waiting, k - 1) \o waiting[k].p.log

RECURSIVE TopKeys(_, _)
\* event.changes.keys of the event on the map itself, in order of first write
TopKeys(log, seen) ==
    IF log = <<>> THEN <<>>
    ELSE IF Head(log).k = "key" /\ Head(log).id \notin seen
         THEN <<Head(log).id>> \o TopKeys(Tail(log), seen \cup {Head(log).id})
         ELSE TopKeys(Tail(log), seen)

\* change.action of a key of the map
KeyChange(yOld, yNew, id) ==
    CASE yOld.m[id].present /\ ~yNew.m[id].present -> "delete"
      [] ~yOld.m[id].present /\ yNew.m[id].present -> "add"
      [] yOld.m[id].present /\ yNew.m[id].present -> "update"
      [] OTHER -> "none"

\* a write to a field map raises an event when the field map existed before
\* the writes and still exists after them
Observed(yOld, yNew, w) ==
    /\ w.k = "field"
    /\ yOld.m[w.id].present /\ yOld.m[w.id].gen = w.gen
    /\ yNew.m[w.id].present /\ yNew.m[w.id].gen = w.gen

RECURSIVE ObjTargets(_, _, _, _)
\* the ids whose field map raises an event, in order of first write
ObjTargets(yOld, yNew, log, seen) ==
    IF log = <<>> THEN <<>>
    ELSE IF Observed(yOld, yNew, Head(log)) /\ Head(log).id \notin seen
         THEN <<Head(log).id>> \o ObjTargets(yOld, yNew, Tail(log), seen \cup {Head(log).id})
         ELSE ObjTargets(yOld, yNew, Tail(log), seen)

RECURSIVE KeysChanged(_, _, _)
\* event.keysChanged of the event on the field map of id
KeysChanged(log, id, seen) ==
    IF log = <<>> THEN <<>>
    ELSE IF Head(log).k = "field" /\ Head(log).id = id /\ Head(log).f \notin seen
         THEN <<Head(log).f>> \o KeysChanged(Tail(log), id, seen \cup {Head(log).f})
         ELSE KeysChanged(Tail(log), id, seen)

\* whether the field map of id has an entry for key f
HasField(y, id, f) ==
    CASE f = "parent" -> y.m[id].parent # UndefId
      [] f = "parent:order" -> y.m[id].order # Undef
      [] OTHER -> TRUE

\* change.action of a key of a field map
FieldChange(yOld, yNew, id, f) ==
    CASE HasField(yOld, id, f) /\ HasField(yNew, id, f) -> "update"
      [] ~HasField(yOld, id, f) /\ HasField(yNew, id, f) -> "add"
      [] HasField(yOld, id, f) /\ ~HasField(yNew, id, f) -> "delete"
      [] OTHER -> "none"

RECURSIVE DecodeTop(_, _, _, _)
\* the event on the map itself
DecodeTop(B, yOld, yNew, keys) ==
    IF keys = <<>> THEN B
    ELSE DecodeTop(applyKeyChange(B, yNew, Head(keys), KeyChange(yOld, yNew, Head(keys))),
                   yOld, yNew, Tail(keys))

RECURSIVE DecodeObjs(_, _, _, _, _)
\* the events on the field maps
DecodeObjs(B, yOld, yNew, log, ids) ==
    IF ids = <<>> THEN B
    ELSE LET keys == KeysChanged(log, Head(ids), {})
             hasUpdate == \E i \in 1..Len(keys) :
                             FieldChange(yOld, yNew, Head(ids), keys[i]) = "update"
         IN  DecodeObjs(applyObjEvent(B, yNew, Head(ids), keys, hasUpdate),
                        yOld, yNew, log, Tail(ids))

\* the observeDeep callback: every event goes through applyYjsEvent, the event
\* on the map first
applyYjsEvents(B, yOld, yNew, log) ==
    DecodeObjs(DecodeTop(B, yOld, yNew, TopKeys(log, {})),
               yOld, yNew, log, ObjTargets(yOld, yNew, log, {}))

\* The changes a decoder handles in one update, given the store after the
\* event on the map itself: the change.action of every key of the map, and the
\* keys of the field maps whose event is decoded (an event with an update when
\* needUpdate, of an entity that is in the index)
EventKinds(B1, yOld, yNew, log, needUpdate) ==
    LET top == TopKeys(log, {})
        ids == ObjTargets(yOld, yNew, log, {})
        Keys(id) == KeysChanged(log, id, {})
        Decoded(id) ==
            /\ getByIdB(B1, id) # NoRef
            /\ yNew.m[id].present
            /\ needUpdate =>
                  \E j \in 1..Len(Keys(id)) : FieldChange(yOld, yNew, id, Keys(id)[j]) = "update"
    IN  {KeyChange(yOld, yNew, top[i]) : i \in 1..Len(top)}
        \cup UNION {IF Decoded(ids[i])
                    THEN {Keys(ids[i])[j] : j \in 1..Len(Keys(ids[i]))}
                    ELSE {} : i \in 1..Len(ids)}

VARIABLES
    store,          \* peer A: the object store (index, parent, children, fields)
    nextId,         \* peer A: the next shape id to allocate
    undoHistory,    \* peer A: transform.undoHistory (top = last element)
    redoHistory,    \* peer A: transform.redoHistory
    action,         \* peer A: transform.action, the open action or NoAction
    yStore,         \* the replicated map as written by applyTransaction (yjs utils)
    yObjMap,        \* the replicated map as written by YjsSyncPlugin.applyTransaction
    nTransact,      \* number of yDoc.transact calls made by the bridge listeners
    nBatches,       \* number of batches (transactions, undos, redos) forwarded
    net,            \* committed replication transactions not yet delivered to B
    peerB,          \* the observing peer that decodes with applyYjsEvent
    peerP,          \* the observing peer that decodes with the observeDeep callback
    nOps,           \* commands issued by peer A
    nBOps,          \* local edits made by the observing peers
    gesture,        \* peer A: the state of the pointer gesture in progress
    ui              \* peer A: the handlers of the editor and the calls made to them

vars == <<store, nextId, undoHistory, redoHistory, action, yStore, yObjMap,
          nTransact, nBatches, net, peerB, peerP, nOps, nBOps,
          gesture, ui>>

\* -------------------------------------------------- decoder of YjsSyncPlugin
\* Array.prototype.splice(position, 0, e): a negative position counts from
\* the end of the array
SpliceAt(seq, position, e) ==
    IF position < 0
    THEN InsertAt(seq, IF Len(seq) + position < 0 THEN 0 ELSE Len(seq) + position, e)
    ELSE SpliceIn(seq, position, e)

\* observeDeep callback, event.target === yObjMap, one key of keysChanged
pluginKeyChanged(B, y, key) ==
    IF y.m[key].present
    THEN IF getByIdB(B, key) = NoRef
         THEN LET obj == Len(B.heap) + 1
                  B1 == [B EXCEPT !.heap = Append(@, yObjToObj(B, y.m[key], key)),
                                  !.idx[key] = obj]
                  parent == getByIdB(B1, y.m[key].parent)
                  yChildren == getYChildren(y, y.m[key].parent)
                  orders == [i \in 1..Len(yChildren) |-> y.m[yChildren[i]].order]
                  position == FindIndexGe(orders, y.m[key].order)
              IN  IF parent # NoRef
                  THEN [B1 EXCEPT !.heap[obj].parent = parent,
                                  !.heap[parent].children = SpliceAt(@, position, obj)]
                  ELSE B1
         ELSE B
    ELSE LET obj == getByIdB(B, key)
             par == IF obj = NoRef THEN NoRef ELSE B.heap[obj].parent
             B1 == IF par # NoRef
                   THEN [B EXCEPT !.heap[par].children = RemoveAt(@, IndexOf(@, obj)),
                                  !.heap[obj].parent = NoRef]
                   ELSE B
         IN  IF obj # NoRef THEN [B1 EXCEPT !.idx[key] = NoRef] ELSE B1

\* observeDeep callback, event.target is a field map, one key of keysChanged
pluginFieldKey(B, y, id, obj, key) ==
    CASE key = "parent" ->
            LET parent == getByIdB(B, y.m[id].parent)
                old == B.heap[obj].parent
            IN  IF parent # NoRef
                THEN [B EXCEPT !.heap[parent].children = Append(@, obj),
                               !.heap[obj].parent = parent]
                ELSE IF old # NoRef
                     THEN [B EXCEPT !.heap[old].children = RemoveAt(@, IndexOf(@, obj)),
                                    !.heap[obj].parent = NoRef]
                     ELSE B
      [] key = "head" -> [B EXCEPT !.heap[obj].head = Resolved(B, y.m[id].head)]
      [] key = "tail" -> [B EXCEPT !.heap[obj].tail = Resolved(B, y.m[id].tail)]
      [] key = "reference" -> [B EXCEPT !.heap[obj].reference = BRaw(y.m[id].reference)]
      [] key = "subject" -> [B EXCEPT !.heap[obj].subject = BRaw(y.m[id].subject)]
      [] key = "parent:order" -> B
      [] OTHER -> [B EXCEPT !.heap[obj].val[key] = y.m[id].val[key]]

RECURSIVE pluginFieldKeys(_, _, _, _, _)
pluginFieldKeys(B, y, id, obj, keys) ==
    IF keys = <<>> THEN B
    ELSE pluginFieldKeys(pluginFieldKey(B, y, id, obj, Head(keys)), y, id, obj, Tail(keys))

RECURSIVE PluginDecodeTop(_, _, _)
PluginDecodeTop(B, yNew, keys) ==
    IF keys = <<>> THEN B
    ELSE PluginDecodeTop(pluginKeyChanged(B, yNew, Head(keys)), yNew, Tail(keys))

RECURSIVE PluginDecodeObjs(_, _, _, _)
PluginDecodeObjs(B, yNew, log, ids) ==
    IF ids = <<>> THEN B
    ELSE PluginDecodeObjs(
            IF getByIdB(B, Head(ids)) # NoRef /\ yNew.m[Head(ids)].present
            THEN pluginFieldKeys(B, yNew, Head(ids), getByIdB(B, Head(ids)),
                                 KeysChanged(log, Head(ids), {}))
            ELSE B,
            yNew, log, Tail(ids))

\* the observeDeep callback of YjsSyncPlugin.listen for a remote transaction
observeDeep(B, yOld, yNew, log) ==
    PluginDecodeObjs(PluginDecodeTop(B, yNew, TopKeys(log, {})),
                     yNew, log, ObjTargets(yOld, yNew, log, {}))

\* the callback that decodes the events of every replication transaction,
\* those of the peer's own listeners included
observeDeepListenerAnyOrigin(B, yOld, yNew, log, local) ==
    [observeDeep(B, yOld, yNew, log) EXCEPT
       !.events = EventKinds(PluginDecodeTop(B, yNew, TopKeys(log, {})),
                             yOld, yNew, log, FALSE)]

\* the callback registered with yObjMap.observeDeep: Y.Map calls it at the end
\* of every replication transaction on the document; it decodes the events
\* when the transaction is not local (tr.local) and records what it decoded
observeDeepListener(B, yOld, yNew, log, local) ==
    IF local THEN B
    ELSE [observeDeep(B, yOld, yNew, log) EXCEPT
            !.events = EventKinds(PluginDecodeTop(B, yNew, TopKeys(log, {})),
                                  yOld, yNew, log, FALSE)]

\* ------------------------------------------------------------ the editor
\* the editor of peer A as one record, and back
CurT ==
    [store |-> store, undo |-> undoHistory, redo |-> redoHistory, action |-> action,
     yStore |-> yStore, yObjMap |-> yObjMap, net |-> net,
     nTransact |-> nTransact, nBatches |-> nBatches]

SetT(T) ==
    /\ store' = T.store
    /\ undoHistory' = T.undo
    /\ redoHistory' = T.redo
    /\ action' = T.action
    /\ yStore' = T.yStore
    /\ yObjMap' = T.yObjMap
    /\ net' = T.net
    /\ nTransact' = T.nTransact
    /\ nBatches' = T.nBatches

\* ------------------------------------------------ handlers of the editor
\* the ids of the handlers in options.handlers, and an id that is not one
HandlerIds == {"Select", "Ellipse", "Text"}
UnknownIds == {"Unknown"}

\* Editor.activeHandler is null; this.handlers[id] is undefined
NoHandler == "null"
UndefinedHandler == "undefined"

\* HandlerOptions.defaultLock of the handlers
DefaultLock == [id \in HandlerIds |-> id = "Ellipse"]

\* The controllers of one manipulator, in the order of Manipulator.controllers
Controllers == <<"Size", "Move">>
ControllerIds == {Controllers[i] : i \in 1..Len(Controllers)}
NoController == "null"

\* Mouse.BUTTON1 and another button; the keys a key event may carry
Buttons == {"BUTTON1", "BUTTON3"}
KeyNames == {"Escape", "Enter"}

\* The drag fields of a Controller after reset(). Points are in the shape's
\* coordinate system; the fields in the global and the canvas coordinate
\* systems are assigned in the same statements and are not kept apart.
NoPoint == <<-1, -1>>
ResetController ==
    [dragging |-> FALSE, dragStartPoint |-> NoPoint, dragPrevPoint |-> NoPoint,
     dragPoint |-> NoPoint, dx |-> 0, dy |-> 0, dxStep |-> 0, dyStep |-> 0]

\* the editor after its constructor: no active handler, no lock; `calls` lists
\* the hooks called and the events emitted since, `id` is the argument of
\* the last activateHandler call and `n` the number of calls
\* The text editor holds no shape (state.textShape); `content` is the content
\* of its input, `text` the text field of the shapes.
InitUi ==
    [activeHandler |-> NoHandler, activeHandlerLock |-> FALSE,
     calls |-> <<>>, id |-> NoHandler, n |-> 0,
     controller |-> [c \in ControllerIds |-> ResetController],
     draggingController |-> NoController,
     handled |-> FALSE, event |-> "none", nEvents |-> 0,
     textShape |-> NoId, isText |-> FALSE, content |-> "",
     text |-> [i \in Shapes |-> "a"]]

\* a hook of handler h was called, or an event was emitted with payload h
Called(u, what, h) == [u EXCEPT !.calls = Append(@, <<what, h>>)]

\* Editor.setActiveHandlerLock
setActiveHandlerLock(u, lock) ==
    IF u.activeHandlerLock # lock
    THEN Called([u EXCEPT !.activeHandlerLock = lock], "onActiveHandlerLockChange",
                IF lock THEN "true" ELSE "false")
    ELSE u

\* Handler.activate and Handler.deactivate
activate(u, h) == Called(setActiveHandlerLock(u, DefaultLock[h]), "onActivate", h)
deactivate(u, h) == Called(u, "onDeactivate", h)

\* activateHandler as it would be if the new handler were activated before
\* the previous one is deactivated
activateHandlerNewFirst(u, id) ==
    LET handler == IF id \in HandlerIds THEN id ELSE UndefinedHandler
    IN  IF u.activeHandler # handler
        THEN IF handler # UndefinedHandler
             THEN LET u1 == activate([u EXCEPT !.activeHandler = handler], handler)
                      u2 == IF u.activeHandler # NoHandler
                            THEN deactivate(u1, u.activeHandler) ELSE u1
                  IN  Called(u2, "onActiveHandlerChange", handler)
             ELSE IF u.activeHandler # NoHandler THEN deactivate(u, u.activeHandler) ELSE u
        ELSE u

\* Editor.activateHandler
activateHandler(u, id) ==
    LET handler == IF id \in HandlerIds THEN id ELSE UndefinedHandler
    IN  IF u.activeHandler # handler
        THEN LET u1 == IF u.activeHandler # NoHandler
                       THEN deactivate(u, u.activeHandler) ELSE u
             IN  IF handler # UndefinedHandler
                 THEN Called(activate([u1 EXCEPT !.activeHandler = handler], handler),
                             "onActiveHandlerChange", handler)
                 ELSE u1
        ELSE u

\* Controller.pointerDown; e.over is the set of controllers the cursor is in
CtlPointerDown(u, c, e) ==
    IF e.button = "BUTTON1" /\ c \in e.over
    THEN Called([u EXCEPT !.controller[c] =
                              [ResetController EXCEPT !.dragging = TRUE,
                                                      !.dragStartPoint = e.pt,
                                                      !.dragPrevPoint = e.pt,
                                                      !.dragPoint = e.pt],
                          !.handled = TRUE],
                "onDragStart", c)
    ELSE [u EXCEPT !.handled = FALSE]

\* Controller.pointerMove
CtlPointerMove(u, c, e) ==
    LET cp == u.controller[c]
    IN  IF cp.dragging
        THEN Called([u EXCEPT !.controller[c] =
                                  [cp EXCEPT !.dragPrevPoint = cp.dragPoint,
                                             !.dragPoint = e.pt,
                                             !.dx = e.pt[1] - cp.dragStartPoint[1],
                                             !.dy = e.pt[2] - cp.dragStartPoint[2],
                                             !.dxStep = e.pt[1] - cp.dragPoint[1],
                                             !.dyStep = e.pt[2] - cp.dragPoint[2]],
                              !.handled = TRUE],
                    "onDrag", c)
        ELSE [u EXCEPT !.handled = FALSE]

\* Controller.pointerUp
CtlPointerUp(u, c, e) ==
    IF e.button = "BUTTON1" /\ u.controller[c].dragging
    THEN Called([u EXCEPT !.controller[c] = ResetController, !.handled = TRUE],
                "onDragEnd", c)
    ELSE [u EXCEPT !.handled = FALSE]

\* Controller.keyDown, without its call of Transform.cancelAction; the call
\* with the Escape key is listed among the calls
CtlKeyDown(u, c, key) ==
    LET u1 == IF key = "Escape" THEN Called(u, "Escape", c) ELSE u
    IN  IF u1.controller[c].dragging /\ key = "Escape"
        THEN [u1 EXCEPT !.controller[c] = ResetController, !.handled = TRUE]
        ELSE [u1 EXCEPT !.handled = FALSE]

\* Manipulator.pointerDown: the first controller the cursor is in that handles
\* the event becomes the dragging controller
RECURSIVE PointerDownFrom(_, _, _)
PointerDownFrom(u, e, i) ==
    IF i > Len(Controllers) THEN u
    ELSE IF Controllers[i] \in e.over
         THEN LET u1 == CtlPointerDown(u, Controllers[i], e)
              IN  IF u1.handled
                  THEN [u1 EXCEPT !.draggingController = Controllers[i]]
                  ELSE PointerDownFrom(u1, e, i + 1)
         ELSE PointerDownFrom(u, e, i + 1)

ManipulatorPointerDown(u, e) == PointerDownFrom([u EXCEPT !.handled = FALSE], e, 1)

\* Manipulator.pointerMove
ManipulatorPointerMove(u, e) ==
    IF u.draggingController # NoController
    THEN CtlPointerMove(u, u.draggingController, e)
    ELSE [u EXCEPT !.handled = FALSE]

\* Manipulator.pointerUp
ManipulatorPointerUp(u, e) ==
    LET u1 == IF u.draggingController # NoController
              THEN CtlPointerUp(u, u.draggingController, e)
              ELSE [u EXCEPT !.handled = FALSE]
    IN  [u1 EXCEPT !.draggingController = NoController]

\* Manipulator.keyDown: the controllers in order until one handles the key
RECURSIVE KeyDownFrom(_, _, _)
KeyDownFrom(u, key, i) ==
    IF i > Len(Controllers) THEN [u EXCEPT !.handled = FALSE]
    ELSE LET u1 == CtlKeyDown(u, Controllers[i], key)
         IN  IF u1.handled THEN u1 ELSE KeyDownFrom(u1, key, i + 1)

ManipulatorKeyDown(u, key) == KeyDownFrom(u, key, 1)

\* what a gesture remembers: the editor when the open action was started (a0)
\* and when the gesture began (g0)
Snap(T) == [store |-> T.store, undo |-> T.undo, yStore |-> T.yStore, yObjMap |-> T.yObjMap]
NoSnap == [store |-> InitStore, undo |-> <<>>, yStore |-> EmptyY, yObjMap |-> EmptyY]

\* no gesture in progress; `last` tells how the last gesture ended and `moves`
\* how many pointer moves it had
NoGesture == [kind |-> "none", shape |-> NoId, moves |-> 0, last |-> "none",
              a0 |-> NoSnap, g0 |-> NoSnap]

\* YjsSyncPlugin.synchronize: every entity of the index is written to the map,
\* in the order of the keys of the index (the index of a new document holds the
\* page alone)
RECURSIVE SynchronizeFrom(_, _, _)
SynchronizeFrom(y, st, id) ==
    IF id > MaxShapes THEN y
    ELSE SynchronizeFrom(IF id \in st.idx THEN YSet(y, id, objToYMap(st, id)) ELSE y,
                         st, id + 1)

synchronize(y, st) == SynchronizeFrom(y, st, Root)

Init ==
    /\ store = InitStore
    /\ nextId = 1
    /\ undoHistory = <<>>
    /\ redoHistory = <<>>
    /\ action = NoAction
    /\ yStore = [synchronize(EmptyY, InitStore) EXCEPT !.log = <<>>]
    /\ yObjMap = [synchronize(EmptyY, InitStore) EXCEPT !.log = <<>>]
    /\ nTransact = 0
    /\ nBatches = 0
    /\ net = <<>>
    /\ peerB = InitB([synchronize(EmptyY, InitStore) EXCEPT !.log = <<>>])
    /\ peerP = InitB([synchronize(EmptyY, InitStore) EXCEPT !.log = <<>>])
    /\ nOps = 0
    /\ nBOps = 0
    /\ gesture = NoGesture
    /\ ui = InitUi

\* One shape of a stored document: its type, its parent and what it refers to.
\* A box may have a reference, a connector a head and a tail, a mirror a
\* subject.
ShapeDescs ==
    {d \in [type : {"Box", "Group", "Connector", "Mirror"}, parent : Ids,
            reference : Shapes \cup {NoId}, head : Shapes \cup {NoId},
            tail : Shapes \cup {NoId}, subject : Shapes \cup {NoId}] :
        /\ d.type # "Box" => d.reference = NoId
        /\ d.type # "Connector" => d.head = NoId /\ d.tail = NoId
        /\ d.type # "Mirror" => d.subject = NoId}

\* The stored documents: every shape is on the page or in a group created
\* before it, and refers to shapes created before it.
Docs ==
    {doc \in [Shapes -> ShapeDescs] :
        \A i \in Shapes :
            /\ doc[i].parent = Root
               \/ (doc[i].parent \in Shapes /\ doc[i].parent < i
                   /\ doc[doc[i].parent].type = "Group")
            /\ \A r \in {doc[i].reference, doc[i].head, doc[i].tail, doc[i].subject} :
                  r = NoId \/ r < i}

\* the children of p in a stored document, in the order of their creation
RECURSIVE DocChildren(_, _, _)
DocChildren(doc, p, i) ==
    IF i > MaxShapes THEN <<>>
    ELSE (IF doc[i].parent = p THEN <<i>> ELSE <<>>) \o DocChildren(doc, p, i + 1)

\* the store of an editor that has loaded a stored document
DocStore(doc) ==
    [idx       |-> Ids,
     type      |-> [i \in Ids |-> IF i = Root THEN "Page" ELSE doc[i].type],
     parent    |-> [i \in Ids |-> IF i = Root THEN NoId ELSE doc[i].parent],
     children  |-> [i \in Ids |-> DocChildren(doc, i, 1)],
     val       |-> InitStore.val,
     reference |-> [i \in Ids |-> IF i = Root THEN NoId ELSE doc[i].reference],
     head      |-> [i \in Ids |-> IF i = Root THEN NoId ELSE doc[i].head],
     tail      |-> [i \in Ids |-> IF i = Root THEN NoId ELSE doc[i].tail],
     subject   |-> [i \in Ids |-> IF i = Root THEN NoId ELSE doc[i].subject],
     constraints |-> [i \in Ids |-> <<>>]]

\* An editor that has loaded the store st of a stored document and
\* synchronized it to the map; the update that carries the document is on its
\* way to the observing peers.
Loaded(st) ==
    /\ store = st
    /\ yStore = [synchronize(EmptyY, st) EXCEPT !.log = <<>>]
    /\ yObjMap = [synchronize(EmptyY, st) EXCEPT !.log = <<>>]
    /\ net = <<[y |-> synchronize(EmptyY, st), p |-> synchronize(EmptyY, st), batch |-> 0]>>
    /\ nextId = MaxShapes + 1
    /\ undoHistory = <<>>
    /\ redoHistory = <<>>
    /\ action = NoAction
    /\ nTransact = 0
    /\ nBatches = 0
    /\ peerB = InitB(EmptyY)
    /\ peerP = InitB(EmptyY)
    /\ nOps = 0
    /\ nBOps = 0
    /\ gesture = NoGesture
    /\ ui = InitUi

InitDoc == \E doc \in Docs : Loaded(DocStore(doc))

\* the stored documents that hold boxes and groups only
TreeDocs ==
    {doc \in Docs : \A i \in Shapes : doc[i].type \in {"Box", "Group"}
                                        /\ doc[i].reference = NoId}

InitTreeDoc == \E doc \in TreeDocs : Loaded(DocStore(doc))

\* The stored documents with constraints: boxes on the page, each of which may
\* refer to the next one (the last to the first) and holds no constraint, the
\* constraint `follow`, or an unknown constraint and `inset`.
ConstrainedDocs ==
    [Shapes -> [reference : {TRUE, FALSE},
                constraints : {<<>>, <<"follow">>, <<"unknown", "inset">>}]]

ConstrainedStore(doc) ==
    [DocStore([i \in Shapes |->
                 [type |-> "Box", parent |-> Root, reference |-> NoId, head |-> NoId,
                  tail |-> NoId, subject |-> NoId]])
       EXCEPT !.reference = [i \in Ids |->
                               IF i # Root /\ doc[i].reference
                               THEN (i % MaxShapes) + 1 ELSE NoId],
              !.constraints = [i \in Ids |->
                                 IF i = Root THEN <<>> ELSE doc[i].constraints]]

InitConstrained == \E doc \in ConstrainedDocs : Loaded(ConstrainedStore(doc))

\* Stored documents for the order keys: a page with three children, whose
\* order keys ascend in children order, and a fourth entity still to be
\* created. The keys are drawn from KeyValues; the field maps of the children
\* were put into the map in any order (entities are created and attached in
\* separate steps), which is the order Y.Map.forEach visits them in.
Siblings == <<1, 2, 3>>
NewSibling == Len(Siblings) + 1
KeyIds == 0..NewSibling
KeyValues == {-1, 0, 1, 2, 3}
KeyDocs ==
    {d \in [keys : [1..Len(Siblings) -> KeyValues],
            created : [1..Len(Siblings) -> 1..Len(Siblings)]] :
        /\ \A i \in 1..(Len(Siblings) - 1) : d.keys[i] < d.keys[i + 1]
        /\ \A i, j \in 1..Len(Siblings) : d.created[i] = d.created[j] => i = j}

KeyStore ==
    [idx       |-> KeyIds \ {NewSibling},
     type      |-> [i \in KeyIds |-> IF i = Root THEN "Page" ELSE "Box"],
     parent    |-> [i \in KeyIds |-> IF i \in 1..Len(Siblings) THEN Root ELSE NoId],
     children  |-> [i \in KeyIds |-> IF i = Root THEN Siblings ELSE <<>>],
     val       |-> [left |-> [i \in KeyIds |-> 0], width |-> [i \in KeyIds |-> 0],
                    height |-> [i \in KeyIds |-> 0]],
     reference |-> [i \in KeyIds |-> NoId],
     head      |-> [i \in KeyIds |-> NoId],
     tail      |-> [i \in KeyIds |-> NoId],
     subject   |-> [i \in KeyIds |-> NoId],
     constraints |-> [i \in KeyIds |-> <<>>]]

\* the replicated map of such a document: the field map of the page, then
\* those of the children in the order they were created, each with its key
KeyMap(d) ==
    [m    |-> [i \in KeyIds |->
                 IF i = Root THEN [toJSON(KeyStore, Root) EXCEPT !.gen = 1]
                 ELSE IF i \in 1..Len(Siblings)
                 THEN [toJSON(KeyStore, i) EXCEPT
                         !.gen = 1 + (CHOOSE k \in 1..Len(Siblings) : d.created[k] = i),
                         !.order = Num(d.keys[i] * Scale)]
                 ELSE NoYObj],
     keys |-> <<Root>> \o [k \in 1..Len(Siblings) |-> d.created[k]],
     gen  |-> 1 + Len(Siblings),
     log  |-> <<>>]

InitKeys ==
    \E d \in KeyDocs :
        /\ store = KeyStore
        /\ yStore = KeyMap(d)
        /\ yObjMap = KeyMap(d)
        /\ net = <<>>
        /\ nextId = NewSibling
        /\ undoHistory = <<>>
        /\ redoHistory = <<>>
        /\ action = NoAction
        /\ nTransact = 0
        /\ nBatches = 0
        /\ peerB = InitB(EmptyY)
        /\ peerP = InitB(EmptyY)
        /\ nOps = 0
        /\ nBOps = 0
        /\ gesture = NoGesture
        /\ ui = InitUi

\* a command may be issued: no drag is in progress and the budget allows it
Idle ==
    /\ gesture.kind = "none"
    /\ action = NoAction
    /\ nOps < MaxOps
    /\ Len(net) < MaxNet

BUnchanged == UNCHANGED <<peerB, peerP, nBOps, ui>>

\* a command has run to its end
Done(T) ==
    /\ SetT(T)
    /\ nOps' = nOps + 1
    /\ gesture' = NoGesture
    /\ BUnchanged

\* the shapes that may hold children
Containers(st) == {p \in st.idx : p = Root \/ st.type[p] = "Group"}

\* Actions.insert(shape, parent) with a new shape of the given type
Insert(parent, type) ==
    /\ Idle
    /\ nextId <= MaxShapes
    /\ parent \in Containers(store)
    /\ LET T0 == [CurT EXCEPT !.store.type[nextId] = type]
           T1 == startAction(T0, "INSERT")
           T2 == transact(T1, resolved(addShape(NewTx(T1.store), nextId, parent)))
       IN  Done(endAction(T2))
    /\ nextId' = nextId + 1

\* Actions.remove([shape])
Remove(shape) ==
    /\ Idle
    /\ shape \in store.idx \ {Root}
    /\ LET T1 == startAction(CurT, "DELETE")
           T2 == transact(T1, resolved(deleteSingleShape(NewTx(T1.store), shape)))
       IN  Done(endAction(T2))
    /\ UNCHANGED nextId

\* Actions.remove(shapes) for a selection of several shapes
RemoveAll(shapes) ==
    /\ Idle
    /\ \A i \in 1..Len(shapes) : shapes[i] \in store.idx \ {Root}
    /\ LET T1 == startAction(CurT, "DELETE")
           T2 == transact(T1, resolved(deleteShapes(NewTx(T1.store), shapes)))
       IN  Done(endAction(T2))
    /\ UNCHANGED nextId

\* Actions.move(dx, dy, [shape])
Move(shape, dx) ==
    /\ Idle
    /\ shape \in store.idx \ {Root}
    /\ LET T1 == startAction(CurT, "MOVE")
           T2 == transact(T1, resolved(moveShapes(NewTx(T1.store), shape, dx, NoId)))
       IN  Done(endAction(T2))
    /\ UNCHANGED nextId

\* Actions.update({reference: value}, [shape])
Update(shape, value) ==
    /\ Idle
    /\ shape \in store.idx \ {Root}
    /\ value \in (store.idx \ {Root, shape}) \cup {NoId}
    /\ value # store.reference[shape]
    /\ LET T1 == startAction(CurT, "UPDATE")
           T2 == transact(T1, resolved(assignRef(NewTx(T1.store), shape, "reference", value)))
       IN  Done(endAction(T2))
    /\ UNCHANGED nextId

\* Actions.ungroup([group])
Ungroup(group) ==
    /\ Idle
    /\ group \in store.idx \ {Root}
    /\ store.type[group] = "Group"
    /\ store.parent[group] # NoId
    /\ LET T1 == startAction(CurT, "UNGROUP")
           T2 == transact(T1, resolved(ungroupShapes(NewTx(T1.store), group)))
       IN  Done(endAction(T2))
    /\ UNCHANGED nextId

\* Actions.bringToFront([shape])
BringToFront(shape) ==
    /\ Idle
    /\ shape \in store.idx \ {Root}
    /\ bringToFront(NewTx(store), shape).muts # <<>>
    /\ LET T1 == startAction(CurT, "BRING_TO_FRONT")
           T2 == transact(T1, resolved(bringToFront(NewTx(T1.store), shape)))
       IN  Done(endAction(T2))
    /\ UNCHANGED nextId

\* Actions.sendToBack([shape])
SendToBack(shape) ==
    /\ Idle
    /\ shape \in store.idx \ {Root}
    /\ sendToBack(NewTx(store), shape).muts # <<>>
    /\ LET T1 == startAction(CurT, "SEND_TO_BACK")
           T2 == transact(T1, resolved(sendToBack(NewTx(T1.store), shape)))
       IN  Done(endAction(T2))
    /\ UNCHANGED nextId

\* Actions.undo
Undo ==
    /\ Idle
    /\ undoHistory # <<>>
    /\ Done(undo(CurT))
    /\ UNCHANGED nextId

\* Actions.redo
Redo ==
    /\ Idle
    /\ redoHistory # <<>>
    /\ Done(redo(CurT))
    /\ UNCHANGED nextId

\* Editor.getPages: the children of the root of the store. Where pages are
\* added the root is the document and its children are the pages.
getPages(st) == st.children[Root]

\* Actions.addPage(position) with the new page `page`; given tells whether
\* the position was passed
ActionsAddPage(T, page, given, position) ==
    LET pos == IF given THEN position ELSE Len(getPages(T.store))
        T0 == [T EXCEPT !.store.type[page] = "Page"]
        T1 == startAction(T0, "ADD_PAGE")
        tx1 == addPage(NewTx(T1.store), Root, page)
        tx2 == IF pos >= 0 /\ pos < Len(getPages(tx1.st))
               THEN reorderPage(tx1, page, pos) ELSE tx1
    IN  endAction(transact(T1, resolved(tx2)))

AddPage(given, position) ==
    /\ Idle
    /\ nextId <= MaxShapes
    /\ Done(ActionsAddPage(CurT, nextId, given, position))
    /\ nextId' = nextId + 1

\* Actions.removePage(page)
RemovePage(page) ==
    /\ Idle
    /\ page \in store.idx \ {Root}
    /\ LET T1 == startAction(CurT, "REMOVE_PAGE")
       IN  Done(endAction(transact(T1, removePage(NewTx(T1.store), page))))
    /\ UNCHANGED nextId

\* A client of the transform that attaches an end of a connector to a shape or
\* detaches it (Transaction.assignRef on `head` or `tail`)
Connect(connector, end, shape) ==
    /\ Idle
    /\ connector \in store.idx \ {Root}
    /\ store.type[connector] = "Connector"
    /\ end \in {"head", "tail"}
    /\ shape \in (store.idx \ {Root, connector}) \cup {NoId}
    /\ shape # RefOf(store, end, connector)
    /\ LET T1 == startAction(CurT, "UPDATE")
           T2 == transact(T1, assignRef(NewTx(T1.store), connector, end, shape))
       IN  Done(endAction(T2))
    /\ UNCHANGED nextId

\* A client of the transform that creates an entity in a transaction of its
\* own (Transaction.appendObj alone): the entity is in the index without a
\* parent. The supply of ids bounds the creations, which nOps does not count.
Create(type) ==
    /\ Idle
    /\ nextId <= MaxShapes
    /\ LET T0 == [CurT EXCEPT !.store.type[nextId] = type]
           T1 == startAction(T0, "INSERT")
           T2 == transact(T1, appendObj(NewTx(T1.store), nextId))
       IN  SetT(endAction(T2))
    /\ nextId' = nextId + 1
    /\ gesture' = NoGesture
    /\ UNCHANGED nOps
    /\ BUnchanged

\* A client of the transform that creates an entity and inserts it among the
\* children of the page at a position (Transaction.appendObj and
\* Transaction.insertChild with a position), in an action of its own
InsertSibling(position) ==
    /\ Idle
    /\ nextId = NewSibling
    /\ position \in 0..Len(store.children[Root])
    /\ LET T1 == startAction(CurT, "INSERT")
           T2 == transact(T1, insertChildAt(appendObj(NewTx(T1.store), nextId),
                                            Root, nextId, position))
       IN  Done(endAction(T2))
    /\ nextId' = nextId + 1

\* The move controller drops a shape into a container: moveShapes by 0,0 with
\* the container, in an action of its own
Attach(shape, container) ==
    /\ Idle
    /\ shape \in store.idx \ {Root}
    /\ container \in Containers(store) \ {shape}
    /\ store.parent[shape] # container
    /\ shape \notin {traverse(store, Root)[i] : i \in 1..Len(traverse(store, Root))}
          \/ container \notin {traverse(store, shape)[i] : i \in 1..Len(traverse(store, shape))}
    /\ LET T1 == startAction(CurT, "MOVE")
           T2 == transact(T1, moveShapes(NewTx(T1.store), shape, 0, container))
       IN  Done(endAction(T2))
    /\ UNCHANGED nextId

\* ------------------------------------------------- ellipse factory handler
\* EllipseFactoryHandler.finalize: a shape below MIN_SIZE in both directions
\* is not kept
MIN_SIZE == 2

\* the drag points of the modelled drags, relative to the drag start point
DragPoints == {<<1, 1>>, <<3, 1>>}

\* geometry.normalizeRect([dragStartPoint, dragPoint]) with the start at 0,0
RectLeft(pt) == IF pt[1] < 0 THEN pt[1] ELSE 0
RectWidth(pt) == IF pt[1] < 0 THEN 0 - pt[1] ELSE pt[1]
RectHeight(pt) == IF pt[2] < 0 THEN 0 - pt[2] ELSE pt[2]

\* initialize as it would be if the shape were inserted by an action of its
\* own, ended before the action of the drag starts
initializeCommitted(T, shape) ==
    LET T0 == [T EXCEPT !.store.type[shape] = "Box"]
        T1 == startAction(T0, "INSERT")
        T2 == endAction(transact(T1, addShape(NewTx(T1.store), shape, Root)))
    IN  startAction(T2, "INSERT")

\* EllipseFactoryHandler.initialize: the shape is created (an empty rectangle
\* at the drag start point) and added to the page inside a new action
initialize(T, shape) ==
    LET T0 == [T EXCEPT !.store.type[shape] = "Box"]
        T1 == startAction(T0, "INSERT")
    IN  transact(T1, addShape(NewTx(T1.store), shape, Root))

\* EllipseFactoryHandler.update
update(T, shape, pt) ==
    LET t1 == assign(NewTx(T.store), shape, "left", RectLeft(pt))
        t2 == assign(t1, shape, "width", RectWidth(pt))
        t3 == assign(t2, shape, "height", RectHeight(pt))
    IN  transact(T, t3)

\* the test of EllipseFactoryHandler.finalize
TooSmall(st, shape) == st.val["width"][shape] < MIN_SIZE /\ st.val["height"][shape] < MIN_SIZE

\* finalize as it would be without the test of the size
finalizeAlwaysEnd(T, shape) == endAction(T)

\* EllipseFactoryHandler.finalize
finalize(T, shape) == IF TooSmall(T.store, shape) THEN cancelAction(T) ELSE endAction(T)

\* Handler.pointerDown of the ellipse factory handler
EllipsePointerDown ==
    /\ Idle
    /\ nextId <= MaxShapes
    /\ SetT(initialize(CurT, nextId))
    /\ gesture' = [kind |-> "ellipse", shape |-> nextId, moves |-> 0, last |-> "none",
                   a0 |-> Snap(CurT), g0 |-> Snap(CurT)]
    /\ nOps' = nOps + 1
    /\ UNCHANGED nextId
    /\ BUnchanged

\* Handler.pointerMove while dragging
EllipsePointerMove(pt) ==
    /\ gesture.kind = "ellipse"
    /\ gesture.moves < MaxMoves
    /\ SetT(update(CurT, gesture.shape, pt))
    /\ gesture' = [gesture EXCEPT !.moves = @ + 1]
    /\ UNCHANGED <<nextId, nOps>>
    /\ BUnchanged

\* Handler.pointerUp while dragging: finalize, reset, complete
EllipsePointerUp ==
    /\ gesture.kind = "ellipse"
    /\ SetT(finalize(CurT, gesture.shape))
    /\ gesture' = [NoGesture EXCEPT
                      !.last = IF TooSmall(store, gesture.shape) THEN "cancelled" ELSE "up",
                      !.moves = gesture.moves]
    /\ nextId' = IF gesture.shape \in store'.idx THEN nextId + 1 ELSE nextId
    /\ UNCHANGED nOps
    /\ BUnchanged

\* Handler.keyDown, Escape while dragging: cancelAction, reset, complete
EllipseEscape ==
    /\ gesture.kind = "ellipse"
    /\ SetT(cancelAction(CurT))
    /\ gesture' = [NoGesture EXCEPT !.last = "escape", !.moves = gesture.moves]
    /\ UNCHANGED <<nextId, nOps>>
    /\ BUnchanged

\* The pointerup listener of the editor while the space key is held: the
\* active handler is not called, so the handler stays in its dragging state
\* with its action open
EllipsePointerUpSpace ==
    /\ gesture.kind = "ellipse"
    /\ gesture' = [gesture EXCEPT !.kind = "ellipseheld"]
    /\ UNCHANGED <<store, nextId, undoHistory, redoHistory, action, yStore, yObjMap,
                   nTransact, nBatches, net, nOps>>
    /\ BUnchanged

\* The pointerdown listener of the editor once the space key is released, the
\* handler still dragging: Handler.pointerMove updates the shape of the drag
\* that was never finished, then Handler.pointerDown runs initialize again
EllipsePointerDownDragging(pt) ==
    /\ gesture.kind = "ellipseheld"
    /\ nOps < MaxOps
    /\ gesture.shape < MaxShapes
    /\ LET T1 == update(CurT, gesture.shape, pt)
       IN  SetT(initialize(T1, gesture.shape + 1))
    /\ gesture' = [gesture EXCEPT !.kind = "ellipse", !.shape = @ + 1, !.moves = 0]
    /\ nextId' = gesture.shape + 1
    /\ nOps' = nOps + 1
    /\ BUnchanged

\* ------------------------------------------------- alt-drag in SelectHandler
\* Actions.duplicate([shape], 0, 0) for a shape without children: the copy is
\* added to the page; moving it by 0,0 records nothing
duplicate(T, shape, copy) ==
    LET T0 == [T EXCEPT !.store.type[copy] = T.store.type[shape],
                        !.store.val["left"][copy] = T.store.val["left"][shape],
                        !.store.val["width"][copy] = T.store.val["width"][shape],
                        !.store.val["height"][copy] = T.store.val["height"][shape],
                        !.store.reference[copy] = T.store.reference[shape],
                        !.store.head[copy] = T.store.head[shape],
                        !.store.tail[copy] = T.store.tail[shape],
                        !.store.subject[copy] = T.store.subject[shape]]
        T1 == startAction(T0, "DUPLICATE")
        t1 == changeParent(appendObj(NewTx(T1.store), copy), copy, Root)
        t2 == moveShapes(t1, copy, 0, NoId)
    IN  endAction(transact(T1, resolved(t2)))

\* SelectHandler.pointerDown with the alt key on a shape: the shape is
\* selected and duplicated, the copy becomes the selection
AltPointerDown(shape) ==
    /\ Idle
    /\ nextId <= MaxShapes
    /\ shape \in store.idx \ {Root}
    /\ store.children[shape] = <<>>
    /\ SetT(duplicate(CurT, shape, nextId))
    /\ gesture' = [kind |-> "alt", shape |-> nextId, moves |-> 0, last |-> "none",
                   a0 |-> Snap(CurT), g0 |-> Snap(CurT)]
    /\ nextId' = nextId + 1
    /\ nOps' = nOps + 1
    /\ BUnchanged

\* the move controller of the selected copy: the first pointer move of a drag
\* starts a MOVE action, every pointer move is one transaction
ControllerUpdate(T, shape, dx) ==
    LET T1 == IF T.action = NoAction THEN startAction(T, "MOVE") ELSE T
    IN  transact(T1, moveShapes(NewTx(T1.store), shape, dx, NoId))

\* Controller.pointerMove while dragging
AltPointerMove ==
    /\ gesture.kind = "alt"
    /\ gesture.moves < MaxMoves
    /\ SetT(ControllerUpdate(CurT, gesture.shape, 1))
    /\ gesture' = [gesture EXCEPT !.moves = @ + 1,
                                  !.a0 = IF action = NoAction THEN Snap(CurT) ELSE @]
    /\ UNCHANGED <<nextId, nOps>>
    /\ BUnchanged

\* Controller.keyDown, Escape while dragging: reset, cancelAction
AltEscape ==
    /\ gesture.kind = "alt"
    /\ action # NoAction
    /\ SetT(cancelAction(CurT))
    /\ gesture' = [gesture EXCEPT !.kind = "altesc", !.last = "escape"]
    /\ UNCHANGED <<nextId, nOps>>
    /\ BUnchanged

\* Controller.pointerUp while dragging: the move controller ends its action
ControllerPointerUp(T) == endAction(T)

\* SelectHandler.pointerUp as it would be without the merge
pointerUpNoMerge(T) == ControllerPointerUp(T)

\* SelectHandler.pointerUp as it would be if a duplication that was not
\* followed by a move were kept
pointerUpKeepDuplicate(T) ==
    LET T1 == ControllerPointerUp(T)
        n == Len(T1.undo)
    IN  IF n > 1 /\ T1.undo[n].name = "MOVE" /\ T1.undo[n - 1].name = "DUPLICATE"
        THEN mergeAction(T1)
        ELSE T1

\* SelectHandler.pointerUp: the actions of a duplicated dragging are merged
\* into one, a duplication that was not followed by a move is undone
pointerUp(T) ==
    LET T1 == ControllerPointerUp(T)
        n == Len(T1.undo)
    IN  IF n > 0
        THEN IF T1.undo[n].name = "MOVE"
             THEN IF n > 1 /\ T1.undo[n - 1].name = "DUPLICATE" THEN mergeAction(T1) ELSE T1
             ELSE IF T1.undo[n].name = "DUPLICATE" THEN undo(T1) ELSE T1
        ELSE T1

AltPointerUp ==
    /\ gesture.kind \in {"alt", "altesc"}
    /\ SetT(pointerUp(CurT))
    /\ gesture' = [gesture EXCEPT !.kind = "none", !.a0 = NoSnap,
                                  !.last = IF action # NoAction THEN "merged" ELSE "undone"]
    /\ UNCHANGED <<nextId, nOps>>
    /\ BUnchanged

\* SelectHandler.pointerDown with the alt key on the empty canvas: the
\* selection is cleared, nothing is duplicated, and duplicatedDragging is set
AltPointerDownEmpty ==
    /\ Idle
    /\ gesture' = [kind |-> "altempty", shape |-> NoId, moves |-> 0, last |-> "none",
                   a0 |-> Snap(CurT), g0 |-> Snap(CurT)]
    /\ nOps' = nOps + 1
    /\ UNCHANGED <<store, nextId, undoHistory, redoHistory, action, yStore, yObjMap,
                   nTransact, nBatches, net>>
    /\ BUnchanged

\* SelectHandler.pointerUp of that gesture: no manipulator is called for an
\* empty selection, and duplicatedDragging is set
AltPointerUpEmpty ==
    /\ gesture.kind = "altempty"
    /\ SetT(pointerUp(CurT))
    /\ gesture' = [gesture EXCEPT !.kind = "none", !.a0 = NoSnap, !.last = "empty"]
    /\ UNCHANGED <<nextId, nOps>>
    /\ BUnchanged

\* a client calls Editor.activateHandler(id)
ActivateHandler(id) ==
    /\ ui.n < MaxCalls
    /\ ui' = [activateHandler(ui, id) EXCEPT !.id = id, !.n = @ + 1]
    /\ UNCHANGED <<store, nextId, undoHistory, redoHistory, action, yStore, yObjMap,
                   nTransact, nBatches, net, peerB, peerP, nOps, nBOps, gesture>>

\* ------------------------------------------------------- observing peers
\* The manipulator of the selected shape is given a pointer down
ManipPointerDown(button, over, pt) ==
    /\ ui.nEvents < MaxEvents
    /\ ui' = [ManipulatorPointerDown(ui, [button |-> button, over |-> over, pt |-> pt])
                EXCEPT !.event = "pointerDown", !.nEvents = @ + 1]
    /\ UNCHANGED <<store, nextId, undoHistory, redoHistory, action, yStore, yObjMap,
                   nTransact, nBatches, net, peerB, peerP, nOps, nBOps, gesture>>

\* a pointer move
ManipPointerMove(pt) ==
    /\ ui.nEvents < MaxEvents
    /\ ui' = [ManipulatorPointerMove(ui, [pt |-> pt])
                EXCEPT !.event = "pointerMove", !.nEvents = @ + 1]
    /\ UNCHANGED <<store, nextId, undoHistory, redoHistory, action, yStore, yObjMap,
                   nTransact, nBatches, net, peerB, peerP, nOps, nBOps, gesture>>

\* a pointer up
ManipPointerUp(button) ==
    /\ ui.nEvents < MaxEvents
    /\ ui' = [ManipulatorPointerUp(ui, [button |-> button])
                EXCEPT !.event = "pointerUp", !.nEvents = @ + 1]
    /\ UNCHANGED <<store, nextId, undoHistory, redoHistory, action, yStore, yObjMap,
                   nTransact, nBatches, net, peerB, peerP, nOps, nBOps, gesture>>

\* a key down; the controller that handles it cancels the open action
ManipKeyDown(key) ==
    /\ ui.nEvents < MaxEvents
    /\ ui' = [ManipulatorKeyDown(ui, key) EXCEPT !.event = key, !.nEvents = @ + 1]
    /\ SetT(IF ManipulatorKeyDown(ui, key).handled THEN cancelAction(CurT) ELSE CurT)
    /\ UNCHANGED <<nextId, peerB, peerP, nOps, nBOps, gesture>>

\* the values of a text: the empty text and two others
TextValues == {"", "a", "b"}

\* DGMTextInplaceEditor.update: one transaction that assigns the text, the
\* width and height kept by open() (they are the values the shape has) and
\* resolves the constraints. The text is not one of Fields; it is kept
\* in `text`, and the call is listed with the name of the action that is open.
TextUpdate(T, u, value) ==
    [T |-> transact(T, resolved(NewTx(T.store))),
     u |-> Called([u EXCEPT !.text[u.textShape] = value], "transact", T.action.name)]

\* handleEditorDblClick, handleEditorKeyDown -> open(shape), for a text-editable
\* box; isText tells whether the shape is a Text. While the editor holds a
\* shape its overlay covers the canvas and the input has the focus, so the
\* events of the canvas arrive only when it holds none.
TextOpen(shape, isText) ==
    /\ ui.nEvents < MaxEvents
    /\ ui.textShape = NoId
    /\ shape \in store.idx /\ store.type[shape] = "Box"
    /\ LET T1 == startAction(CurT, "EDIT_TEXT")
           u1 == [Called(ui, "startAction", "EDIT_TEXT")
                    EXCEPT !.textShape = shape, !.isText = isText,
                           !.content = ui.text[shape]]
           r  == TextUpdate(T1, u1, ui.text[shape])
       IN  /\ SetT(r.T)
           /\ ui' = [r.u EXCEPT !.event = "open", !.nEvents = @ + 1]
    /\ UNCHANGED <<nextId, peerB, peerP, nOps, nBOps, gesture>>

\* onUpdate of the input: the text was changed to value
TextChange(value) ==
    /\ ui.nEvents < MaxEvents
    /\ ui.textShape # NoId
    /\ value # ui.content
    /\ LET r == TextUpdate(CurT, [ui EXCEPT !.content = value], value)
       IN  /\ SetT(r.T)
           /\ ui' = [r.u EXCEPT !.event = "textChange", !.nEvents = @ + 1]
    /\ UNCHANGED <<nextId, peerB, peerP, nOps, nBOps, gesture>>

\* DGMTextInplaceEditor.close (pointer down on the overlay, Escape in the
\* input): endAction, then a Text left empty is removed by Actions.remove and
\* any other shape is assigned the content in one more transaction
TextClose ==
    /\ ui.nEvents < MaxEvents
    /\ ui.textShape # NoId
    /\ Len(net) < MaxNet
    /\ LET T1 == endAction(CurT)
           u1 == Called(ui, "endAction", action.name)
       IN  IF ui.isText /\ ui.content = ""
           THEN LET T2 == startAction(T1, "DELETE")
                    T3 == transact(T2, resolved(deleteSingleShape(NewTx(T2.store),
                                                                  ui.textShape)))
                    u2 == Called(Called(Called(u1, "startAction", "DELETE"),
                                        "transact", T2.action.name),
                                 "endAction", T3.action.name)
                IN  /\ SetT(endAction(T3))
                    /\ ui' = [u2 EXCEPT !.textShape = NoId, !.event = "close",
                                        !.nEvents = @ + 1]
           ELSE LET r == TextUpdate(T1, u1, ui.content)
                IN  /\ SetT(r.T)
                    /\ ui' = [r.u EXCEPT !.textShape = NoId, !.event = "close",
                                         !.nEvents = @ + 1]
    /\ UNCHANGED <<nextId, peerB, peerP, nOps, nBOps, gesture>>

AUnchanged ==
    UNCHANGED <<store, nextId, undoHistory, redoHistory, action, yStore, yObjMap,
                nTransact, nBatches, nOps, gesture, ui>>

\* The observing peers receive the first k waiting replication transactions as
\* one update; each decodes the events of that update with its decoder.
Deliver(k) ==
    /\ k \in 1..Len(net)
    /\ LET yNew == [net[k].y EXCEPT !.log = <<>>]
           pNew == [net[k].p EXCEPT !.log = <<>>]
           ylog == ConcatLogs(net, k)
           plog == PluginConcatLogs(net, k)
       IN  /\ peerB' = [applyYjsEvents(peerB, peerB.y, yNew, ylog) EXCEPT
                          !.y = yNew,
                          !.events = EventKinds(DecodeTop(peerB, peerB.y, yNew, TopKeys(ylog, {})),
                                                peerB.y, yNew, ylog, TRUE)]
           /\ peerP' = [observeDeepListener(peerP, peerP.y, pNew, plog, FALSE) EXCEPT
                          !.y = pNew]
    /\ net' = SubSeq(net, k + 1, Len(net))
    /\ UNCHANGED nBOps
    /\ AUnchanged

\* A local edit of an observing peer: one action with one transaction that
\* assigns the height of an entity; the action is pushed onto the undo
\* history and the redo history is cleared
LocalEdit(B, id) ==
    LET obj == getByIdB(B, id)
        old == B.heap[obj].val["height"]
    IN  [B EXCEPT !.heap[obj].val["height"] = old + 1,
                  !.undo = Append(@, [obj |-> obj, oldValue |-> old, newValue |-> old + 1]),
                  !.redo = <<>>,
                  !.emitted = @ + 1]

\* undo() of an observing peer
LocalUndo(B) ==
    LET act == B.undo[Len(B.undo)]
    IN  [B EXCEPT !.heap[act.obj].val["height"] = act.oldValue,
                  !.undo = SubSeq(@, 1, Len(@) - 1),
                  !.redo = Append(@, act),
                  !.emitted = @ + 1]

\* the listeners as they would be if the replication transaction they open
\* were not marked local
PluginCommitNotLocal(B0, B1, id) ==
    LET written == IF B0.y.m[id].present
                   THEN YSetVal(B0.y, id, "height", B1.heap[getByIdB(B0, id)].val["height"])
                   ELSE B0.y
        yNew == [written EXCEPT !.log = <<>>]
    IN  [observeDeepListener(B1, B0.y, yNew, written.log, FALSE) EXCEPT !.y = yNew]

\* The listeners of YjsSyncPlugin on an observing peer: the transaction of a
\* local edit or undo is written to the peer's replica inside one replication
\* transaction (the height goes to the field map when there is one), at the
\* end of which Y.Map calls the observeDeep callback with tr.local set
PluginCommit(B0, B1, id) ==
    LET written == IF B0.y.m[id].present
                   THEN YSetVal(B0.y, id, "height", B1.heap[getByIdB(B0, id)].val["height"])
                   ELSE B0.y
        yNew == [written EXCEPT !.log = <<>>]
    IN  [observeDeepListener(B1, B0.y, yNew, written.log, TRUE) EXCEPT !.y = yNew]

BEdit(id) ==
    /\ nBOps < MaxBOps
    /\ getByIdB(peerB, id) # NoRef
    /\ peerB' = LocalEdit(peerB, id)
    /\ nBOps' = nBOps + 1
    /\ UNCHANGED <<peerP, net>>
    /\ AUnchanged

BUndo ==
    /\ peerB.undo # <<>>
    /\ peerB' = LocalUndo(peerB)
    /\ UNCHANGED <<peerP, net, nBOps>>
    /\ AUnchanged

PEdit(id) ==
    /\ nBOps < MaxBOps
    /\ getByIdB(peerP, id) # NoRef
    /\ peerP' = PluginCommit(peerP, LocalEdit(peerP, id), id)
    /\ nBOps' = nBOps + 1
    /\ UNCHANGED <<peerB, net>>
    /\ AUnchanged

PUndo ==
    /\ peerP.undo # <<>>
    /\ peerP' = PluginCommit(peerP, LocalUndo(peerP),
                             peerP.heap[peerP.undo[Len(peerP.undo)].obj].id)
    /\ UNCHANGED <<peerB, net, nBOps>>
    /\ AUnchanged

\* ---------------------------------------------------------- specification
\* a command or a step of a gesture of peer A
ANext ==
    \/ \E parent \in Ids, type \in {"Box", "Group"} : Insert(parent, type)
    \/ \E shape \in Shapes : Remove(shape)
    \/ \E shape \in Shapes : Move(shape, 1)
    \/ \E shape \in Shapes, value \in Shapes \cup {NoId} : Update(shape, value)
    \/ \E group \in Shapes : Ungroup(group)
    \/ \E shape \in Shapes : BringToFront(shape)
    \/ \E shape \in Shapes : SendToBack(shape)
    \/ Undo
    \/ Redo
    \/ EllipsePointerDown
    \/ \E pt \in DragPoints : EllipsePointerMove(pt)
    \/ EllipsePointerUp
    \/ EllipseEscape
    \/ \E shape \in Shapes : AltPointerDown(shape)
    \/ AltPointerMove
    \/ AltEscape
    \/ AltPointerUp

\* peer A edits, the other peers only observe
Next ==
    \/ ANext
    \/ \E k \in 1..(MaxNet + MaxMoves + 1) : Deliver(k)

Spec == Init /\ [][Next]_vars

\* peer A inserts, removes, updates and undoes; the other peers observe and make
\* local edits of their own
NextRemote ==
    \/ \E parent \in Ids, type \in {"Box", "Group"} : Insert(parent, type)
    \/ \E shape \in Shapes : Remove(shape)
    \/ \E shape \in Shapes, value \in Shapes \cup {NoId} : Update(shape, value)
    \/ Undo
    \/ \E k \in 1..(MaxNet + MaxMoves + 1) : Deliver(k)
    \/ \E id \in Ids : BEdit(id)
    \/ BUndo
    \/ \E id \in Ids : PEdit(id)
    \/ PUndo

SpecRemote == Init /\ [][NextRemote]_vars

\* peer A edits the tree without reordering children: entities are created,
\* inserted into and removed from children sequences, and the edits are undone
\* and redone
NextTree ==
    \/ \E parent \in Ids, type \in {"Box", "Group"} : Insert(parent, type)
    \/ \E shape \in Shapes : Remove(shape)
    \/ \E group \in Shapes : Ungroup(group)
    \/ Undo
    \/ Redo
    \/ \E k \in 1..(MaxNet + MaxMoves + 1) : Deliver(k)

SpecTree == Init /\ [][NextTree]_vars

\* peer A creates entities, attaches them to a parent later, moves them to
\* another parent and removes them; the other peers observe
NextLoose ==
    \/ Create("Box")
    \/ \E parent \in Ids, type \in {"Box", "Group"} : Insert(parent, type)
    \/ \E shape \in Shapes, container \in Ids : Attach(shape, container)
    \/ \E shape \in Shapes : Remove(shape)
    \/ Undo
    \/ Redo
    \/ \E k \in 1..(MaxNet + MaxMoves + 1) : Deliver(k)

SpecLoose == Init /\ [][NextLoose]_vars

\* The same editor on a document that also holds connectors: a connector is
\* created, and an end of it attached to a shape or detached.
NextLinks ==
    \/ Create("Connector")
    \/ \E parent \in Ids, type \in {"Box", "Group"} : Insert(parent, type)
    \/ \E shape \in Shapes, container \in Ids : Attach(shape, container)
    \/ \E connector \in Shapes, shape \in Ids \cup {NoId} : Connect(connector, "head", shape)
    \/ \E shape \in Shapes : Remove(shape)
    \/ Undo
    \/ \E k \in 1..(MaxNet + MaxMoves + 1) : Deliver(k)

SpecLinks == Init /\ [][NextLinks]_vars

\* The editor on a stored document: selections of one or two shapes are
\* removed.
NextDoc ==
    \/ \E a \in Shapes : RemoveAll(<<a>>)
    \/ \E a \in Shapes, b \in Shapes : a # b /\ RemoveAll(<<a, b>>)
    \/ \E k \in 1..(MaxNet + MaxMoves + 1) : Deliver(k)

SpecDoc == InitDoc /\ [][NextDoc]_vars

\* an editor that has loaded a stored document of boxes and groups; shapes are
\* removed one by one, and the removals are undone and redone
NextDocUndo ==
    \/ \E shape \in Shapes : Remove(shape)
    \/ Undo
    \/ Redo
    \/ \E k \in 1..(MaxNet + MaxMoves + 1) : Deliver(k)

SpecDocUndo == InitTreeDoc /\ [][NextDocUndo]_vars

\* The editor on a stored document with constraints: shapes are moved.
NextConstrained ==
    \/ \E shape \in Shapes : Move(shape, 1)
    \/ \E k \in 1..(MaxNet + MaxMoves + 1) : Deliver(k)

SpecConstrained == InitConstrained /\ [][NextConstrained]_vars

\* The editor on a stored document with order keys: a new child is inserted
\* at a position among the children of the page.
NextKeys == \E position \in 0..Len(Siblings) : InsertSibling(position)

SpecKeys == InitKeys /\ [][NextKeys]_vars

\* the ellipse factory handler alone, with every pointer and key event the
\* editor hands to it; the other peers observe
NextGesture ==
    \/ EllipsePointerDown
    \/ \E pt \in DragPoints : EllipsePointerMove(pt)
    \/ EllipsePointerUp
    \/ EllipseEscape
    \/ EllipsePointerUpSpace
    \/ \E pt \in DragPoints : EllipsePointerDownDragging(pt)
    \/ \E k \in 1..(MaxNet + MaxMoves + 1) : Deliver(k)

SpecGesture == Init /\ [][NextGesture]_vars

\* the select handler with the alt key: boxes are inserted on the page and
\* duplicated by alt-pointer gestures, on a shape or on the empty canvas; the
\* other peers observe
NextAlt ==
    \/ Insert(Root, "Box")
    \/ \E shape \in Shapes : AltPointerDown(shape)
    \/ AltPointerMove
    \/ AltEscape
    \/ AltPointerUp
    \/ AltPointerDownEmpty
    \/ AltPointerUpEmpty
    \/ Undo
    \/ \E k \in 1..(MaxNet + MaxMoves + 1) : Deliver(k)

SpecAlt == Init /\ [][NextAlt]_vars

\* the clients of the editor switch between its handlers
NextHandlers == \E id \in HandlerIds \cup UnknownIds : ActivateHandler(id)

SpecHandlers == Init /\ [][NextHandlers]_vars

\* the same with the ids of handlers only
NextRegistered == \E id \in HandlerIds : ActivateHandler(id)

SpecRegistered == Init /\ [][NextRegistered]_vars

\* pointer and key events on the manipulator of a shape
NextDrag ==
    \/ \E button \in Buttons, over \in SUBSET ControllerIds, pt \in DragPoints :
          ManipPointerDown(button, over, pt)
    \/ \E pt \in DragPoints : ManipPointerMove(pt)
    \/ \E button \in Buttons : ManipPointerUp(button)
    \/ \E key \in KeyNames : ManipKeyDown(key)

SpecDrag == Init /\ [][NextDrag]_vars

\* text-editing sessions on a loaded document of boxes and groups
NextText ==
    \/ \E shape \in Shapes, isText \in BOOLEAN : TextOpen(shape, isText)
    \/ \E value \in TextValues : TextChange(value)
    \/ TextClose

SpecText == InitTreeDoc /\ [][NextText]_vars

\* pages are added to and removed from the document, the edits are undone and
\* redone, the other peers observe
NextPages ==
    \/ \E given \in BOOLEAN, position \in -1..(MaxShapes + 1) : AddPage(given, position)
    \/ \E page \in Shapes : RemovePage(page)
    \/ Undo
    \/ Redo
    \/ \E k \in 1..(MaxNet + MaxMoves + 1) : Deliver(k)

SpecPages == Init /\ [][NextPages]_vars

\* ============================================================== properties
\* the objects of the index of an observing peer
Live(B) == {B.idx[i] : i \in Ids} \ {NoRef}

\* the places (object, position) at which o occurs in a children sequence
Places(B, o) ==
    UNION {{<<p, i>> : i \in {j \in 1..Len(B.heap[p].children) : B.heap[p].children[j] = o}} :
           p \in 1..Len(B.heap)}

\* the objects an observing peer can still get at: those of the index and the
\* ones they lead to through parent and children
RECURSIVE Held(_, _)
Held(B, S) ==
    LET N == S \cup ({B.heap[o].parent : o \in S} \ {NoRef})
               \cup UNION {{B.heap[o].children[i] : i \in 1..Len(B.heap[o].children)} : o \in S}
    IN  IF N = S THEN S ELSE Held(B, N)

IdOf(B, r) == IF r = NoRef THEN NoId ELSE B.heap[r].id

\* the id held by a value of the reference field of an observing peer
RefIdOf(B, v) ==
    CASE v.k = "null" -> NoId
      [] v.k = "obj" -> B.heap[v.v].id
      [] OTHER -> v.v

\* the store st and the store of the observing peer B hold the same entity
\* ids, the same field values and the same parent/children structure
SameStore(st, B) ==
    /\ {i \in Ids : B.idx[i] # NoRef} = st.idx
    /\ \A i \in st.idx :
          LET o == B.heap[B.idx[i]]
          IN  /\ o.type = st.type[i]
              /\ \A f \in Fields : o.val[f] = st.val[f][i]
              /\ RefIdOf(B, o.reference) = st.reference[i]
              /\ IdOf(B, o.parent) = st.parent[i]
              /\ [j \in 1..Len(o.children) |-> IdOf(B, o.children[j])] = st.children[i]

\* every batch has been delivered and peer A is at rest
AllDelivered == net = <<>> /\ action = NoAction /\ gesture.kind = "none"

\* C2: once every replication transaction encoded by applyTransaction has been
\* delivered and decoded by applyYjsEvent, the store of the observing peer
\* holds the same entity ids, field values and parent/children structure
\* (child order included) as the store of peer A.
C2_Converged == AllDelivered => SameStore(store, peerB)

\* C3: every transaction, undo and redo the transform emits is translated
\* inside one yDoc.transact call: the calls are as many as the batches, no
\* write is left outside a replication transaction, and no two replication
\* transactions on their way to the peers carry writes of the same batch.
C3_OneTransactPerBatch ==
    /\ nTransact = nBatches
    /\ yStore.log = <<>> /\ yObjMap.log = <<>>
    /\ \A i, j \in 1..Len(net) : i < j => net[i].batch < net[j].batch

\* C3 witness: an action of two or more transactions has been undone and its
\* translation waits for delivery as one replication transaction of several
\* writes
C3_Witness ==
    /\ redoHistory # <<>>
    /\ Len(redoHistory[Len(redoHistory)].txs) >= 2
    /\ net # <<>>
    /\ net[Len(net)].batch = nBatches
    /\ Len(net[Len(net)].y.log) >= 2

\* an open action that holds transactions is cancelled by this step: the
\* ellipse drag ends too small or is escaped, or the drag of the move
\* controller is escaped
CancelStep ==
    /\ action # NoAction
    /\ action.txs # <<>>
    /\ \/ /\ gesture.kind = "ellipse"
          /\ gesture'.kind = "none"
          /\ gesture'.last \in {"cancelled", "escape"}
       \/ /\ gesture.kind = "alt"
          /\ gesture'.kind = "altesc"

IsEntryOf(y, p, a) == a # NoId /\ y.m[a].present /\ y.m[a].parent = p

\* x < y in JavaScript (false when either side is NaN or undefined)
JsLt(x, y) == IsNum(x) /\ IsNum(y) /\ x.v < y.v

\* the entries of y with the same parent, sorted by `parent:order`, follow the
\* order of the children sequences of st
SortedLikeChildren(y, st) ==
    \A p \in st.idx : \A i, j \in 1..Len(st.children[p]) :
        (i < j /\ IsEntryOf(y, p, st.children[p][i]) /\ IsEntryOf(y, p, st.children[p][j]))
            => JsLt(y.m[st.children[p][i]].order, y.m[st.children[p][j]].order)

\* C5: after the bridge has translated any sequence of CREATE, INSERT_CHILD
\* and REMOVE_CHILD mutations and of their undo translations, for every parent
\* p the entries of the replicated map whose `parent` is p, sorted ascending by
\* `parent:order`, are in the order of the corresponding entities in
\* p.children (for the map of either encoder).
C5_OrderMatchesChildren ==
    action = NoAction =>
        /\ SortedLikeChildren(yStore, store)
        /\ SortedLikeChildren(yObjMap, store)

\* the step from y to y2 gives c a place among the entries of a parent
InsertedInto(y, y2, c) ==
    /\ y2.m[c].present
    /\ y2.m[c].parent \in Ids
    /\ \/ ~y.m[c].present
       \/ y.m[c].gen # y2.m[c].gen
       \/ y.m[c].parent # y2.m[c].parent
       \/ y.m[c].order # y2.m[c].order

\* the key of c lies strictly between the keys of its neighbours in the
\* children sequence of its parent, where it has them
BetweenNeighbours(y, st, c) ==
    LET p == y.m[c].parent
        k == IndexOf(st.children[p], c)
        prev == ChildAt(st, p, k - 1)
        next == ChildAt(st, p, k + 1)
    IN  k >= 0 =>
            /\ IsEntryOf(y, p, prev) => JsLt(y.m[prev].order, y.m[c].order)
            /\ IsEntryOf(y, p, next) => JsLt(y.m[c].order, y.m[next].order)

\* no two entries of y with the same parent have equal keys
DistinctKeys(y) ==
    \A a, b \in Shapes :
        (a # b /\ y.m[a].present /\ y.m[b].present /\ y.m[a].parent \in Ids
              /\ y.m[a].parent = y.m[b].parent)
            => ~(IsNum(y.m[a].order) /\ y.m[a].order = y.m[b].order)

\* C6: for every sibling insertion the bridge translates, the `parent:order`
\* that getParentOrder computes is strictly greater than the key of the
\* sibling before it and strictly less than the key of the sibling after it in
\* parent.children (only the existing bound applies at an end), and no two
\* entries with the same `parent` have equal keys (for the map of either
\* encoder).
C6_KeyBetweenNeighbours ==
    [][/\ \A c \in Shapes :
            /\ InsertedInto(yStore, yStore', c) => BetweenNeighbours(yStore', store', c)
            /\ InsertedInto(yObjMap, yObjMap', c) => BetweenNeighbours(yObjMap', store', c)
       /\ DistinctKeys(yStore')
       /\ DistinctKeys(yObjMap')]_vars

\* what C7 compares of a replicated map: the key set and, for every key, the
\* type, the value fields, the reference and the parent
MapView(y) == [i \in Ids |-> [y.m[i] EXCEPT !.gen = 0, !.order = Undef]]

\* the transactions of the commands peer A may issue in the current state
CommandTxs ==
    {addShape(NewTx(store), nextId, p) :
        p \in IF nextId \in Shapes THEN Containers(store) ELSE {}}
    \cup {deleteSingleShape(NewTx(store), sh) : sh \in store.idx \ {Root}}
    \cup {moveShapes(NewTx(store), sh, 1, NoId) : sh \in store.idx \ {Root}}
    \cup UNION {{assignRef(NewTx(store), sh, "reference", v) :
                    v \in ((store.idx \ {Root, sh}) \cup {NoId}) \ {store.reference[sh]}} :
                sh \in store.idx \ {Root}}
    \cup {ungroupShapes(NewTx(store), g) :
            g \in {sh \in store.idx \ {Root} :
                     store.type[sh] = "Group" /\ store.parent[sh] # NoId}}

\* unapplyTransaction directly after applyTransaction: the transaction is
\* applied to the map when the store has run it, and unapplied when the store
\* has reverted it
RoundTrip(y, st, tx) == unapplyTransaction(applyTransaction(y, tx.st, tx.muts), st, tx.muts)

\* C7: for every transaction, unapplyTransaction directly after
\* applyTransaction leaves the replicated map with the key set, value fields,
\* reference ids and parents it had before applyTransaction (also when the
\* old or the new value of an ASSIGN_REF is null).
C7_RoundTrip ==
    (action = NoAction /\ gesture.kind = "none") =>
        \A tx \in CommandTxs : MapView(RoundTrip(yStore, store, tx)) = MapView(yStore)

\* C8: a step in which the observing peers decode remote changes (with
\* applyYjsEvent, with the observeDeep callback) leaves their undo history and
\* their redo history as they were and emits no transaction of their
\* transform.
C8_RemoteBypassesHistory ==
    [][Len(net') < Len(net) =>
          /\ peerB'.undo = peerB.undo
          /\ peerB'.redo = peerB.redo
          /\ peerB'.emitted = peerB.emitted
          /\ peerP'.undo = peerP.undo
          /\ peerP'.redo = peerP.redo
          /\ peerP'.emitted = peerP.emitted]_vars

\* C8 witness: a peer that has a local edit on its undo history has decoded
\* the remote removal of the entity it edited
C8_Witness ==
    /\ peerB.undo # <<>>
    /\ peerB.undo[Len(peerB.undo)].obj \notin Live(peerB)
    /\ "delete" \in peerB.events
    /\ "delete" \in peerP.events

\* what is observable of a store: the index and, for every entity of the
\* index, its type, parent, children and fields
StoreView(st) ==
    [idx |-> st.idx,
     ent |-> [i \in Ids |->
                IF i \in st.idx
                THEN <<st.type[i], st.parent[i], st.children[i], st.val["left"][i],
                       st.val["width"][i], st.val["height"][i], st.reference[i]>>
                ELSE <<>>]]

\* C9: when an open action that holds transactions is cancelled (finalize on
\* a too-small ellipse, Escape during a drag), the store is as it was before
\* startAction (the created shape is not in the index and not a child of the
\* page, the assigned fields are restored), no action is open, and the undo
\* history is unchanged.
C9_CancelReverts ==
    [][CancelStep =>
          /\ store' = gesture.a0.store
          /\ gesture.kind = "ellipse" =>
                /\ gesture.shape \notin store'.idx
                /\ ~Contains(store'.children[Root], gesture.shape)
          /\ action' = NoAction
          /\ undoHistory' = undoHistory
          /\ undoHistory' = gesture.a0.undo]_vars

\* C9 witness: an ellipse drag of two pointer moves (an action of three
\* transactions) was escaped while the undo history held an action
C9_Witness ==
    /\ gesture.kind = "none"
    /\ gesture.last = "escape"
    /\ gesture.moves >= 2
    /\ undoHistory # <<>>
    /\ action = NoAction

\* C10: the pointerUp that ends an alt-drag with a DUPLICATE action on the
\* undo history and a MOVE action open leaves one entry for the two (one
\* fewer than after the MOVE action is pushed, one more than before the
\* gesture), and an undo issued next leaves the store and the undo history as
\* they were before the gesture.
C10_MergedUndo ==
    [][/\ (gesture.kind = "alt" /\ action # NoAction /\ gesture'.kind = "none") =>
            /\ Len(undoHistory') = Len(endAction(CurT).undo) - 1
            /\ Len(undoHistory') = Len(gesture.g0.undo) + 1
            /\ undoHistory'[Len(undoHistory')].name = "DUPLICATE"
       /\ (gesture.last = "merged" /\ nOps' = nOps + 1
              /\ Len(undoHistory') < Len(undoHistory)) =>
            /\ StoreView(store') = StoreView(gesture.g0.store)
            /\ undoHistory' = gesture.g0.undo]_vars

\* C10 witness: an alt-drag has ended with its two actions merged into an
\* entry of two or more transactions, and an undo may be issued
C10_Witness ==
    /\ gesture.last = "merged"
    /\ Idle
    /\ undoHistory # <<>>
    /\ undoHistory[Len(undoHistory)].name = "DUPLICATE"
    /\ Len(undoHistory[Len(undoHistory)].txs) >= 2

\* the replicated field map of m.obj holds the new value of the ASSIGN_REF m:
\* the id of the new entity, or no entity id when the new value is null
HoldsNewRef(y, m) == y.m[m.obj].present => y.m[m.obj].reference = m.newValue

\* C11: after the bridge has translated a local ASSIGN_REF (of a reference
\* update, or of deleteSingleShape clearing the references to a shape), the
\* field map of the entity holds the id of the new entity under the field, and
\* no entity id when the new value is null; it never still holds the id of the
\* old entity (for the map of either encoder).
C11_AssignRefTranslated ==
    (action = NoAction /\ gesture.kind = "none") =>
        \A tx \in CommandTxs : \A i \in 1..Len(tx.muts) :
            tx.muts[i].type = "ASSIGN_REF" =>
                /\ HoldsNewRef(applyTransaction(yStore, tx.st, SubSeq(tx.muts, 1, i)),
                               tx.muts[i])
                /\ HoldsNewRef(PluginApplyTransaction(yObjMap, tx.st, SubSeq(tx.muts, 1, i)),
                               tx.muts[i])

\* the children of every entity of the index of the observing peer B, read in
\* sequence, have ascending `parent:order` values in B's replica of the map
\* (children whose field map names the entity as parent and holds a number)
ChildrenAscending(B) ==
    \A p \in Live(B) : \A i, j \in 1..Len(B.heap[p].children) :
        LET a == B.heap[B.heap[p].children[i]].id
            b == B.heap[B.heap[p].children[j]].id
        IN  (i < j /\ IsEntryOf(B.y, B.heap[p].id, a) /\ IsEntryOf(B.y, B.heap[p].id, b)
                   /\ IsNum(B.y.m[a].order) /\ IsNum(B.y.m[b].order))
                => B.y.m[a].order.v <= B.y.m[b].order.v

\* C12: after a remote key-added event or a remote update of `parent` has been
\* decoded, the entity stands in the children of its new parent at the place
\* its `parent:order` implies: the children of every parent, read in sequence,
\* have ascending `parent:order` values in the replicated map, whatever the
\* arrival order of the siblings (for either decoder).
C12_ChildrenByOrder == ChildrenAscending(peerB) /\ ChildrenAscending(peerP)

\* the update the observing peers receive in a step that delivers: the replica
\* after it and the writes it carries, for the map of either encoder
DeliveredY == [net[Len(net) - Len(net')].y EXCEPT !.log = <<>>]
DeliveredYLog == ConcatLogs(net, Len(net) - Len(net'))
DeliveredP == [net[Len(net) - Len(net')].p EXCEPT !.log = <<>>]
DeliveredPLog == PluginConcatLogs(net, Len(net) - Len(net'))

\* the update adds the key of X, whose field map names no parent
AddedWithoutParent(B, yNew, X) ==
    /\ getByIdB(B, X) = NoRef
    /\ ~B.y.m[X].present
    /\ yNew.m[X].present
    /\ yNew.m[X].parent = NoId

\* X is in the index of B without parent and in no children sequence
Unattached(B, X) ==
    /\ getByIdB(B, X) # NoRef
    /\ B.heap[getByIdB(B, X)].parent = NoRef
    /\ Places(B, getByIdB(B, X)) = {}

\* X was materialized without parent, and the update sets `parent` of its field
\* map to an entity that is in the index once the update is decoded (B2)
LateParent(B, B2, yNew, X) ==
    /\ Unattached(B, X)
    /\ B.y.m[X].present /\ B.y.m[X].parent = NoId
    /\ yNew.m[X].present /\ yNew.m[X].gen = B.y.m[X].gen
    /\ yNew.m[X].parent \in Ids
    /\ getByIdB(B2, yNew.m[X].parent) # NoRef

\* X is a child of the entity P, at one place of its children and nowhere else
ChildOnce(B, X, P) ==
    /\ getByIdB(B, X) # NoRef
    /\ getByIdB(B, P) # NoRef
    /\ B.heap[getByIdB(B, X)].parent = getByIdB(B, P)
    /\ Cardinality(Places(B, getByIdB(B, X))) = 1
    /\ \A pl \in Places(B, getByIdB(B, X)) : pl[1] = getByIdB(B, P)

\* C13: an entity whose key-added event arrives before its `parent` is set is
\* materialized in the index with no parent and in no children sequence; when
\* the update of `parent` arrives it becomes a child of the named parent at
\* exactly one place, also when the decoder runs on that update a second time
\* (for either decoder).
C13_LateParentOnce ==
    [][Len(net') < Len(net) =>
          \A X \in Shapes :
              /\ AddedWithoutParent(peerB, DeliveredY, X) => Unattached(peerB', X)
              /\ AddedWithoutParent(peerP, DeliveredP, X) => Unattached(peerP', X)
              /\ LateParent(peerB, peerB', DeliveredY, X) =>
                    /\ ChildOnce(peerB', X, DeliveredY.m[X].parent)
                    /\ ChildOnce(applyYjsEvents(peerB', peerB.y, DeliveredY, DeliveredYLog),
                                 X, DeliveredY.m[X].parent)
              /\ LateParent(peerP, peerP', DeliveredP, X) =>
                    /\ ChildOnce(peerP', X, DeliveredP.m[X].parent)
                    /\ ChildOnce(observeDeep(peerP', peerP.y, DeliveredP, DeliveredPLog),
                                 X, DeliveredP.m[X].parent)]_vars

\* the update removes the key of X
KeyRemoved(yOld, yNew, X) == yOld.m[X].present /\ ~yNew.m[X].present

\* the entity X of B is, in B2, out of the index, without parent, and no
\* longer among the children of the parent it had
Detached(B, B2, X) ==
    LET obj == getByIdB(B, X)
        par == B.heap[obj].parent
    IN  /\ getByIdB(B2, X) = NoRef
        /\ B2.heap[obj].parent = NoRef
        /\ par # NoRef => ~Contains(B2.heap[par].children, obj)

\* C14: a remote key-removed event takes the entity out of the children of
\* its parent, sets its parent to null and removes it from the index; decoding
\* an update of removals again, when the entities are already absent from the
\* index, leaves the store as it is (for either decoder).
C14_RemovalIdempotent ==
    [][Len(net') < Len(net) =>
          /\ \A X \in Shapes :
                /\ (KeyRemoved(peerB.y, DeliveredY, X) /\ getByIdB(peerB, X) # NoRef)
                      => Detached(peerB, peerB', X)
                /\ (KeyRemoved(peerP.y, DeliveredP, X) /\ getByIdB(peerP, X) # NoRef)
                      => Detached(peerP, peerP', X)
          /\ peerB'.events = {"delete"} =>
                applyYjsEvents(peerB', peerB.y, DeliveredY, DeliveredYLog) = peerB'
          /\ peerP'.events = {"delete"} =>
                observeDeep(peerP', peerP.y, DeliveredP, DeliveredPLog) = peerP']_vars

\* C14 witness: the last command of peer A removed a child of the page, and
\* the update of that removal, which held removals only, has been decoded
\* while a sibling stayed
C14_Witness ==
    /\ net = <<>>
    /\ undoHistory # <<>>
    /\ LET txs == undoHistory[Len(undoHistory)].txs
       IN  /\ undoHistory[Len(undoHistory)].name = "DELETE"
           /\ Len(txs) = 1
           /\ \E i \in 1..Len(txs[1]) :
                 /\ txs[1][i].type = "REMOVE_CHILD"
                 /\ txs[1][i].parent = Root
                 /\ getByIdB(peerB, txs[1][i].obj) = NoRef
                 /\ getByIdB(peerP, txs[1][i].obj) = NoRef
    /\ peerB.events = {"delete"}
    /\ peerP.events = {"delete"}
    /\ peerB.heap[peerB.idx[Root]].children # <<>>
    /\ peerP.heap[peerP.idx[Root]].children # <<>>

\* the update adds the key of X
KeyAdded(yOld, yNew, X) == ~yOld.m[X].present /\ yNew.m[X].present

\* C15: a remote key-added event for an id that the index already holds (the
\* event of an update that has been decoded, handled once more) creates no
\* second entity, adds nothing to a children sequence and leaves the store as
\* it is (for either decoder).
C15_AddReplayIgnored ==
    [][Len(net') < Len(net) =>
          \A X \in Shapes :
              /\ (KeyAdded(peerB.y, DeliveredY, X) /\ getByIdB(peerB', X) # NoRef) =>
                    applyKeyChange(peerB', DeliveredY, X, "add") = peerB'
              /\ (KeyAdded(peerP.y, DeliveredP, X) /\ getByIdB(peerP', X) # NoRef) =>
                    pluginKeyChanged(peerP', DeliveredP, X) = peerP']_vars

\* C15 witness: the last update added a key whose entity became a child of
\* the page next to a sibling
C15_Witness ==
    /\ "add" \in peerB.events
    /\ "add" \in peerP.events
    /\ Len(peerB.heap[peerB.idx[Root]].children) >= 2
    /\ Len(peerP.heap[peerP.idx[Root]].children) >= 2
    /\ \E X \in Shapes :
          /\ getByIdB(peerB, X) = Len(peerB.heap)
          /\ Contains(peerB.heap[peerB.idx[Root]].children, getByIdB(peerB, X))

\* the field map of D, which B holds in its index, stays the same instance over
\* the update
SameFieldMap(B, yNew, D) ==
    /\ getByIdB(B, D) # NoRef
    /\ B.y.m[D].present
    /\ yNew.m[D].present
    /\ yNew.m[D].gen = B.y.m[D].gen

\* the update changes `head` of the field map of D to an id that the index
\* does not hold once the update is decoded (B2)
HeadNamesMissing(B, B2, yNew, D) ==
    /\ SameFieldMap(B, yNew, D)
    /\ yNew.m[D].head # B.y.m[D].head
    /\ yNew.m[D].head \in Ids
    /\ getByIdB(B2, yNew.m[D].head) = NoRef

\* the update changes `parent` of the field map of D, which was set, to an id
\* that the index does not hold once the update is decoded (B2)
ParentNamesMissing(B, B2, yNew, D) ==
    /\ SameFieldMap(B, yNew, D)
    /\ B.y.m[D].parent # UndefId
    /\ yNew.m[D].parent # B.y.m[D].parent
    /\ yNew.m[D].parent \in Ids
    /\ getByIdB(B2, yNew.m[D].parent) = NoRef

\* the field maps a later key-added event may carry for an id: a box or a
\* group, without parent or on the page
LateObjs ==
    {[NoYObj EXCEPT !.present = TRUE, !.type = t, !.parent = p,
                    !.order = IF p = NoId THEN Undef ELSE Num(0)] :
        t \in {"Box", "Group"}, p \in {NoId, Root}}

\* B after the key-added event for id, carrying yobj, has been handled
AfterLateAdd(B, yNew, id, yobj) ==
    applyKeyChange(B, YSet(yNew, id, yobj), id, "add")

C16_ParentWitness ==
    \E D \in Shapes :
        /\ peerB.y.m[D].parent \in Ids
        /\ getByIdB(peerB, peerB.y.m[D].parent) = NoRef
        /\ Unattached(peerB, D)
        /\ "parent" \in peerB.events

\* the entry of o names a parent; it holds an order key
ParentSet(y, o) == y.m[o].parent \in Ids
OrderSet(y, o) == y.m[o].order # Undef

\* C17: after the bridge has translated any sequence of local transactions,
\* undos and redos, every entry of the replicated map of the yjs utilities has
\* either both `parent` and `parent:order` set or neither.
C17_StructuralPair ==
    \A o \in Ids : yStore.m[o].present => (ParentSet(yStore, o) <=> OrderSet(yStore, o))

\* C17 witness: the removal of a shape has been undone, which put its entry
\* back with both fields, while the entry of an entity that was created without
\* parent has neither
C17_Witness ==
    /\ action = NoAction
    /\ redoHistory # <<>>
    /\ LET txs == redoHistory[Len(redoHistory)].txs
       IN  /\ redoHistory[Len(redoHistory)].name = "DELETE"
           /\ \E i \in 1..Len(txs[1]) :
                 /\ txs[1][i].type = "DELETE"
                 /\ yStore.m[txs[1][i].obj].present
                 /\ ParentSet(yStore, txs[1][i].obj)
                 /\ OrderSet(yStore, txs[1][i].obj)
    /\ \E o \in Shapes :
          /\ yStore.m[o].present
          /\ ~ParentSet(yStore, o)
          /\ ~OrderSet(yStore, o)

\* the entities of the document: the page and what it holds
InDocument(st) == {traverse(st, Root)[i] : i \in 1..Len(traverse(st, Root))}

\* the entities a step deletes from the index
Destroyed == store.idx \ store'.idx

\* a command has deleted entities
DeleteStep == nOps' = nOps + 1 /\ Destroyed # {}

\* C18: after deleteSingleShape or deleteShapes has run, no entity that remains
\* in the document refers to a deleted shape as head, tail, reference or
\* subject, a deleted shape is in no children sequence of the document, and
\* every connector of the document that was attached to a deleted shape is
\* out of the document and has no parent in it.
C18_NoDanglingAfterDelete ==
    [][DeleteStep =>
          /\ \A r \in InDocument(store'), d \in Destroyed :
                /\ \A f \in RefFields : RefOf(store', f, r) # d
                /\ ~Contains(store'.children[r], d)
          /\ \A c \in InDocument(store) :
                (/\ store.type[c] = "Connector"
                 /\ (store.head[c] \in Destroyed \/ store.tail[c] \in Destroyed))
                    => (c \notin InDocument(store') /\ store'.parent[c] \notin store'.idx)]_vars

\* the transactions resolveAllConstraints is called with: the empty one, and
\* the one of a command that has moved a shape
ResolveInputs ==
    {NewTx(store)} \cup {moveShapes(NewTx(store), s, 1, NoId) : s \in store.idx \ {Root}}

\* the call made at most maxIteration traversals and at least one; every
\* traversal before the last reported a change; the last reported none unless
\* it was traversal number maxIteration
BoundedTraversals(r, maxIteration) ==
    /\ Len(r.reports) \in 1..maxIteration
    /\ \A k \in 1..(Len(r.reports) - 1) : r.reports[k]
    /\ r.reports[Len(r.reports)] => Len(r.reports) = maxIteration

\* C19: resolveAllConstraints with maxIteration >= 1 makes at least one and at
\* most maxIteration traversals of the page, makes traversal k+1 only when
\* traversal k reported a change, and stops right after the first traversal
\* that reported none.
C19_BoundedFixpointLoop ==
    \A tx \in ResolveInputs, n \in 1..MaxIteration :
        BoundedTraversals(resolveAllConstraints(tx, n), n)

\* the last command moved a shape and its call of resolveAllConstraints moved
\* further shapes
ResolvedInCommand ==
    /\ undoHistory # <<>>
    /\ undoHistory[Len(undoHistory)].name = "MOVE"
    /\ Len(undoHistory[Len(undoHistory)].txs[1]) >= 3

\* C19 witness: a command has resolved constraints; moving some shape now
\* makes the call take MaxIteration traversals, the last of which reports no
\* change, and without a move it takes one
C19_Witness ==
    /\ ResolvedInCommand
    /\ \E tx \in ResolveInputs :
          /\ Len(resolveAllConstraints(tx, MaxIteration).reports) = MaxIteration
          /\ ~resolveAllConstraints(tx, MaxIteration).result
    /\ Len(resolveAllConstraints(NewTx(store), MaxIteration).reports) = 1

\* a call uses up its traversals without reaching a fixpoint
C19_NoFixpoint ==
    \E tx \in ResolveInputs : resolveAllConstraints(tx, MaxIteration).result

\* C20: when a call of resolveAllConstraints ended at a fixpoint, a second
\* call on the same transaction makes exactly one traversal, adds no mutation
\* and returns false.
C20_IdempotentAtFixpoint ==
    \A tx \in ResolveInputs, n \in 1..MaxIteration :
        LET first == resolveAllConstraints(tx, n)
            second == resolveAllConstraints(first.tx, n)
        IN  ~first.result =>
                /\ second.reports = <<FALSE>>
                /\ second.tx = first.tx
                /\ ~second.result

\* C20 witness: a command has resolved constraints, and a call now changes the
\* document over several traversals and ends at a fixpoint
C20_Witness ==
    \E tx \in ResolveInputs :
        LET first == resolveAllConstraints(tx, MaxIteration)
        IN  /\ nOps >= 1 /\ Len(undoHistory[Len(undoHistory)].txs[1]) >= 2
            /\ ~first.result
            /\ Len(first.reports) >= 2
            /\ Len(first.tx.muts) > Len(tx.muts)

\* the transaction after k traversals of the page, each applying the
\* constraints of every shape
RECURSIVE AfterTraversals(_, _)
AfterTraversals(tx, k) ==
    IF k = 0 THEN tx
    ELSE AfterTraversals(TraverseResolve(tx, traverse(tx.st, Root), FALSE).tx, k - 1)

\* every traversal of the call reported a change and there were maxIteration
\* of them
AllChanged(r, maxIteration) ==
    /\ Len(r.reports) = maxIteration
    /\ \A k \in 1..Len(r.reports) : r.reports[k]

\* C21: when every one of the maxIteration traversals reports a change,
\* resolveAllConstraints logs a warning, returns true and leaves in the
\* transaction (and in the store) every mutation the traversals emitted; in
\* every other case it returns false, without a warning.
C21_ExhaustedKeepsMutations ==
    \A tx \in ResolveInputs, n \in 1..MaxIteration :
        LET r == resolveAllConstraints(tx, n)
        IN  /\ r.result = AllChanged(r, n)
            /\ r.warned = r.result
            /\ r.result =>
                  /\ r.tx = AfterTraversals(tx, n)
                  /\ Len(r.tx.muts) >= Len(tx.muts) + n
                  /\ SubSeq(r.tx.muts, 1, Len(tx.muts)) = tx.muts
                  /\ r.tx.st = ApplyMuts(tx.st,
                                         SubSeq(r.tx.muts, Len(tx.muts) + 1, Len(r.tx.muts)))

\* C21 witness: a command has resolved constraints, and a call after moving
\* a shape uses up MaxIteration traversals, is warned about, returns true and
\* has put mutations into the transaction
C21_Witness ==
    /\ ResolvedInCommand
    /\ \E tx \in ResolveInputs :
          LET r == resolveAllConstraints(tx, MaxIteration)
          IN  /\ r.result /\ r.warned
              /\ Len(r.tx.muts) >= Len(tx.muts) + MaxIteration

\* the lists of constraints a shape may hold
ConstraintLists ==
    {<<>>} \cup {<<a>> : a \in ConstraintIds}
           \cup {<<a, b>> : a \in ConstraintIds, b \in ConstraintIds}

\* the constraints of a list that have a resolver
Registered(cs) == SelectSeq(cs, LAMBDA c : c \in {"follow", "inset"})

\* the transaction on the same document with the constraints of `shape`
\* replaced
WithConstraints(tx, shape, cs) ==
    [st |-> [tx.st EXCEPT !.constraints = [i \in Ids |-> IF i = shape THEN cs ELSE @[i]]],
     muts |-> tx.muts]

\* the transaction on the same document without the constraints that have
\* no resolver
WithoutBroken(tx) ==
    [st |-> [tx.st EXCEPT !.constraints = [i \in Ids |-> Registered(@[i])]],
     muts |-> tx.muts]

\* C22: a constraint whose resolver throws (or is missing) does not abort
\* resolution: for a shape and for a traversal of the page, the mutations
\* emitted and the change reported are those of the same document without
\* the broken constraints, so the remaining constraints of the shape and of
\* the later shapes are applied and their reports are returned.
C22_BrokenConstraintSkipped ==
    \A tx \in ResolveInputs :
        /\ \A shape \in store.idx \ {Root}, cs \in ConstraintLists :
              LET a == resolveShapeConstraints(WithConstraints(tx, shape, cs), shape)
                  b == resolveShapeConstraints(
                           WithConstraints(tx, shape, Registered(cs)), shape)
              IN  a.changed = b.changed /\ a.tx.muts = b.tx.muts
        /\ LET a == TraverseResolve(tx, traverse(tx.st, Root), FALSE)
               b == TraverseResolve(WithoutBroken(tx), traverse(tx.st, Root), FALSE)
           IN  a.changed = b.changed /\ a.tx.muts = b.tx.muts

\* C22 witness: a command has resolved constraints; a shape holds a broken
\* constraint followed by one that reports a change, and the traversal also
\* changes a shape that comes later
C22_Witness ==
    /\ ResolvedInCommand
    /\ \E tx \in ResolveInputs, shape \in Shapes :
          LET order == traverse(tx.st, Root)
              r == TraverseResolve(tx, order, FALSE)
          IN  /\ tx.st.constraints[shape] = <<"unknown", "inset">>
              /\ resolveShapeConstraints(tx, shape).changed
              /\ r.changed
              /\ \E k \in (Len(tx.muts) + 1)..Len(r.tx.muts) :
                    IndexOf(order, r.tx.muts[k].obj) > IndexOf(order, shape)

\* a step in which an observing peer decodes remote change notifications
Decoding == Len(net') < Len(net)

\* a step in which peer A runs a transaction or translates one into the map
LocalTransactionOfA ==
    \/ store' # store \/ action' # action \/ undoHistory' # undoHistory
    \/ redoHistory' # redoHistory \/ yStore' # yStore \/ yObjMap' # yObjMap
    \/ nTransact' # nTransact

\* the stores an observing peer may have after one local transaction or undo
AfterLocalTransaction(B) ==
    {LocalEdit(B, id).heap : id \in {i \in Ids : getByIdB(B, i) # NoRef}}
        \cup (IF B.undo # <<>> THEN {LocalUndo(B).heap} ELSE {})

\* C23: remote change notifications are not decoded in the middle of a local
\* transaction: a step that decodes notifications runs no transaction and
\* no translation of one, and a step in which a peer runs a transaction and
\* translates it into its replica decodes nothing (the store afterwards is
\* the one the transaction alone produces, although the observeDeep callback
\* is called at the end of the replication transaction).
C23_NoDecodeInsideTransaction ==
    [][/\ Decoding =>
            /\ ~LocalTransactionOfA
            /\ peerP'.emitted = peerP.emitted
            /\ peerB'.emitted = peerB.emitted
       /\ LocalTransactionOfA => (peerB' = peerB /\ peerP' = peerP)
       /\ peerP'.emitted # peerP.emitted =>
            /\ ~Decoding
            /\ peerP'.events = peerP.events
            /\ peerP'.heap \in AfterLocalTransaction(peerP)]_vars

\* C23 witness: the peer that runs the plugin has decoded remote
\* notifications, then made a local edit that it wrote to its replica while
\* further notifications were waiting
C23_Witness ==
    /\ peerP.events # {}
    /\ peerP.emitted >= 1
    /\ net # <<>>
    /\ \E id \in Shapes :
          /\ peerP.y.m[id].present
          /\ getByIdB(peerP, id) # NoRef
          /\ peerP.y.m[id].val["height"] = peerP.heap[getByIdB(peerP, id)].val["height"]
          /\ peerP.y.m[id].val["height"] # 0

\* write w of a replication transaction is one that the translation of
\* mutation m makes
WriteOf(w, m) ==
    /\ w.id = m.obj
    /\ CASE m.type \in {"CREATE", "DELETE"} -> w.k = "key"
         [] m.type \in {"ASSIGN", "ASSIGN_REF"} -> w.k = "field" /\ w.f = m.field
         [] m.type \in {"INSERT_CHILD", "REMOVE_CHILD"} ->
                w.k = "field" /\ w.f \in {"parent", "parent:order"}
         [] OTHER -> FALSE

RECURSIVE InOrderOf(_, _)
\* the writes of `log` are made by the mutations of `muts` and come in their
\* order: the writes of a mutation come after those of the mutations before it
InOrderOf(log, muts) ==
    \/ log = <<>>
    \/ /\ muts # <<>>
       /\ \/ WriteOf(Head(log), Head(muts)) /\ InOrderOf(Tail(log), muts)
          \/ InOrderOf(log, Tail(muts))

RECURSIVE Flatten(_)
Flatten(txs) == IF txs = <<>> THEN <<>> ELSE Head(txs) \o Flatten(Tail(txs))

\* the replication transactions a step of peer A has committed
Committed == SubSeq(net', Len(net) + 1, Len(net'))

\* a step that forwards the transactions of the action it has closed (or
\* redoes an action), which is then on top of the undo history
Forwarding ==
    /\ nBatches' > nBatches
    /\ Len(net') >= Len(net)
    /\ Len(undoHistory') >= Len(undoHistory)
    /\ Len(redoHistory') <= Len(redoHistory)

\* the value fields written by the replication transaction `entry` hold the
\* value of the last mutation of `muts` that assigns them
ValuesOf(entry, muts) ==
    \A k \in 1..Len(entry.p.log) :
        LET w == entry.p.log[k]
            assigns == {j \in 1..Len(muts) :
                          /\ muts[j].type = "ASSIGN"
                          /\ muts[j].obj = w.id
                          /\ muts[j].field = w.f}
        IN  (/\ w.k = "field" /\ w.f \in Fields
             /\ entry.p.m[w.id].present /\ entry.p.m[w.id].gen = w.gen) =>
                /\ assigns # {}
                /\ entry.p.m[w.id].val[w.f] =
                      muts[CHOOSE j \in assigns : \A i \in assigns : i <= j].newValue

RECURSIVE MatchTxs(_, _)
\* the replication transactions `entries` are those of the transactions
\* `txs` that wrote something, one each and in the same order
MatchTxs(entries, txs) ==
    \/ entries = <<>>
    \/ /\ txs # <<>>
       /\ \/ /\ InOrderOf(Head(entries).p.log, Head(txs))
             /\ InOrderOf(Head(entries).y.log, Head(txs))
             /\ ValuesOf(Head(entries), Head(txs))
             /\ MatchTxs(Tail(entries), Tail(txs))
          \/ MatchTxs(entries, Tail(txs))

\* C24: local transactions are encoded in the order they were submitted:
\* the replication transactions of a step are appended to the ones committed
\* before; they are those of the transactions of the action, in submission
\* order (or one for all of them when the action is redone), and in each the
\* writes come mutation by mutation and leave the values of the latest one.
C24_EncodedInSubmissionOrder ==
    [][Forwarding =>
          LET txs == undoHistory'[Len(undoHistory')].txs
          IN  /\ SubSeq(net', 1, Len(net)) = net
              /\ \/ MatchTxs(Committed, txs)
                 \/ Len(Committed) = 1 /\ MatchTxs(Committed, <<Flatten(txs)>>)]_vars

\* C24 witness: an action with two transactions was closed and forwarded as
\* two replication transactions that are still waiting, the second of which
\* holds writes of several mutations
C24_Witness ==
    /\ undoHistory # <<>>
    /\ Len(undoHistory[Len(undoHistory)].txs) >= 2
    /\ Len(net) >= 2
    /\ net[Len(net)].batch = net[Len(net) - 1].batch + 1
    /\ Len(net[Len(net)].p.log) >= 2
    /\ Len(net[Len(net) - 1].p.log) >= 1

\* a step that undoes the action on top of the undo history, and one that
\* redoes the action on top of the redo history
UndoStep ==
    /\ undoHistory # <<>>
    /\ undoHistory' = SubSeq(undoHistory, 1, Len(undoHistory) - 1)
    /\ redoHistory' = Append(redoHistory, undoHistory[Len(undoHistory)])

RedoStep ==
    /\ redoHistory # <<>>
    /\ redoHistory' = SubSeq(redoHistory, 1, Len(redoHistory) - 1)
    /\ undoHistory' = Append(undoHistory, redoHistory[Len(redoHistory)])

\* the map after mutation m was translated as its opposite
Opposite(y1, m) ==
    CASE m.type = "CREATE" -> ~y1.m[m.obj].present
      [] m.type = "DELETE" -> y1.m[m.obj].present
      [] m.type = "ASSIGN" ->
            y1.m[m.obj].present => y1.m[m.obj].val[m.field] = m.oldValue
      [] m.type = "INSERT_CHILD" ->
            y1.m[m.obj].present =>
                (y1.m[m.obj].parent = UndefId /\ y1.m[m.obj].order = Undef)
      [] m.type = "REMOVE_CHILD" ->
            y1.m[m.obj].present =>
                (y1.m[m.obj].parent = m.parent /\ y1.m[m.obj].order # Undef)
      [] OTHER -> TRUE

RECURSIVE UndoneInTurn(_, _, _, _)
\* the map after the mutations of `muts` were translated as their opposites
\* one after the other, by the plugin or by the utils; ok tells whether each
\* translation left the opposite of its mutation in the map
UndoneInTurn(r, st, muts, plugin) ==
    IF muts = <<>> THEN r
    ELSE LET y1 == IF plugin THEN PluginUnapplyMutation(r.y, st, Head(muts))
                   ELSE unapplyMutation(r.y, st, Head(muts))
         IN  UndoneInTurn([y |-> y1, ok |-> r.ok /\ Opposite(y1, Head(muts))],
                          st, Tail(muts), plugin)

RECURSIVE RedoneInTurn(_, _, _, _)
\* the map after the mutations of `muts` were translated one after the other
RedoneInTurn(y, st, muts, plugin) ==
    IF muts = <<>> THEN y
    ELSE RedoneInTurn(IF plugin THEN PluginApplyMutation(y, st, Head(muts))
                      ELSE applyMutation(y, st, Head(muts)),
                      st, Tail(muts), plugin)

\* the step committed the writes of y and p as one replication transaction
\* (none when there was no write)
CommittedAs(y, p) ==
    /\ yStore' = [y EXCEPT !.log = <<>>]
    /\ yObjMap' = [p EXCEPT !.log = <<>>]
    /\ IF y.log = <<>> /\ p.log = <<>> THEN Committed = <<>>
       ELSE /\ Len(Committed) = 1
            /\ Committed[1].y = y
            /\ Committed[1].p = p

C25_Witness ==
    /\ undoHistory # <<>>
    /\ Len(undoHistory[Len(undoHistory)].txs) >= 2
    /\ Len(undoHistory[Len(undoHistory)].txs[2]) >= 2
    /\ nTransact >= 4
    /\ net # <<>>
    /\ net[Len(net)].p.log # <<>>
    /\ Len(net[Len(net)].p.log) >=
           Len(Flatten(undoHistory[Len(undoHistory)].txs))

\* the map y1 after mutation m was translated as its opposite from map y0:
\* the structural fields are written only when the field maps of the parent
\* and of the object are both in the map, and nothing is written otherwise
OppositeWhenPresent(y0, y1, m) ==
    IF /\ m.type \in {"INSERT_CHILD", "REMOVE_CHILD"}
       /\ ~(y0.m[m.parent].present /\ y0.m[m.obj].present)
    THEN y1 = y0
    ELSE Opposite(y1, m)

RECURSIVE UndoneWhenPresent(_, _, _, _)
\* as UndoneInTurn, each translation judged by OppositeWhenPresent
UndoneWhenPresent(r, st, muts, plugin) ==
    IF muts = <<>> THEN r
    ELSE LET y1 == IF plugin THEN PluginUnapplyMutation(r.y, st, Head(muts))
                   ELSE unapplyMutation(r.y, st, Head(muts))
         IN  UndoneWhenPresent([y |-> y1,
                                ok |-> r.ok /\ OppositeWhenPresent(r.y, y1, Head(muts))],
                               st, Tail(muts), plugin)

KeyedZeroOneTwo(y) ==
    \A i \in 1..Len(Siblings) :
        /\ y.m[i].present /\ y.m[i].parent = Root
        /\ y.m[i].order = Num((i - 1) * Scale)

\* the new child was inserted at position 1 and translated into map y
InsertedSecond(y) ==
    /\ store.children[Root] = <<1, NewSibling, 2, 3>>
    /\ y.m[NewSibling].present
    /\ y.m[NewSibling].parent = Root

\* C26: with three siblings whose order keys are 0, 1, 2 in children order,
\* the translation of an INSERT_CHILD of a new sibling at position 1 gives it
\* the order key 0.5, in the map of either encoder.
C26_MidpointKey ==
    /\ (KeyedZeroOneTwo(yStore) /\ InsertedSecond(yStore)) =>
            yStore.m[NewSibling].order = Num(Scale \div 2)
    /\ (KeyedZeroOneTwo(yObjMap) /\ InsertedSecond(yObjMap)) =>
            yObjMap.m[NewSibling].order = Num(Scale \div 2)

\* the same for the encoder of YjsSyncPlugin alone
C26_PluginMidpointKey ==
    (KeyedZeroOneTwo(yObjMap) /\ InsertedSecond(yObjMap)) =>
        yObjMap.m[NewSibling].order = Num(Scale \div 2)

\* the same for the yjs utilities when Y.Map.forEach visits the children in
\* children order
C26_UtilsMidpointKeyInOrder ==
    (/\ KeyedZeroOneTwo(yStore) /\ InsertedSecond(yStore)
     /\ yStore.keys = <<Root, 1, 2, 3, NewSibling>>) =>
        yStore.m[NewSibling].order = Num(Scale \div 2)

\* the transactions of the z-order macros on the shapes of the store
ZOrderTxs ==
    UNION {{bringToFront(NewTx(store), shape), sendToBack(NewTx(store), shape),
            bringForward(NewTx(store), shape), sendBackward(NewTx(store), shape)} :
           shape \in store.idx \ {Root}}

\* a step that runs, undoes or redoes an action made of REORDER_CHILD
\* mutations alone
ReorderOnly(act) ==
    /\ Flatten(act.txs) # <<>>
    /\ \A k \in 1..Len(Flatten(act.txs)) : Flatten(act.txs)[k].type = "REORDER_CHILD"

ReorderStep ==
    \/ Forwarding /\ ReorderOnly(undoHistory'[Len(undoHistory')])
    \/ UndoStep /\ ReorderOnly(undoHistory[Len(undoHistory)])
    \/ RedoStep /\ ReorderOnly(redoHistory[Len(redoHistory)])

\* C27: translating a REORDER_CHILD mutation, forward or on undo, writes
\* nothing to the replicated map: the z-order macros emit REORDER_CHILD
\* mutations only, either encoder returns the map as it was for them, and a
\* step that runs, undoes or redoes such an action changes the children
\* order of the store and leaves both maps and the waiting updates alone.
C27_ReorderNotReplicated ==
    [][/\ \A tx \in ZOrderTxs :
            /\ \A k \in 1..Len(tx.muts) : tx.muts[k].type = "REORDER_CHILD"
            /\ applyTransaction(yStore, tx.st, tx.muts) = yStore
            /\ unapplyTransaction(yStore, store, tx.muts) = yStore
            /\ PluginApplyTransaction(yObjMap, tx.st, tx.muts) = yObjMap
            /\ PluginUnapplyTransaction(yObjMap, store, tx.muts) = yObjMap
       /\ ReorderStep =>
            /\ store'.children # store.children
            /\ UNCHANGED <<yStore, yObjMap, net>>]_vars

\* C27 witness: a child of a parent with several children was brought to the
\* front or sent to the back, the action was undone and redone, and the map
\* still lists the children by their keys in the order of before
C27_Witness ==
    /\ undoHistory # <<>>
    /\ undoHistory[Len(undoHistory)].name \in {"BRING_TO_FRONT", "SEND_TO_BACK"}
    /\ ReorderOnly(undoHistory[Len(undoHistory)])
    /\ nTransact >= 5
    /\ \E p \in store.idx :
          /\ Len(store.children[p]) >= 2
          /\ \A i \in 1..Len(store.children[p]) : yObjMap.m[store.children[p][i]].present
          /\ JsLt(yObjMap.m[store.children[p][2]].order, yObjMap.m[store.children[p][1]].order)

\* ---------------------------------------------------------------- C28
\* a step in which EllipseFactoryHandler.initialize issues startAction
InitializeStep == gesture'.kind = "ellipse" /\ gesture.kind # "ellipse"

\* a step in which the handler ends its drag: pointer up or Escape
FinishStep == gesture.kind = "ellipse" /\ gesture'.kind = "none"

\* C28: every startAction issued by EllipseFactoryHandler.initialize finds no
\* action open (the action of the previous drag was closed by the one
\* endAction or cancelAction of its pointer up or Escape), every pointer up or
\* Escape that ends a drag closes the open action, and once Escape has ended
\* the drag no action is left for the later pointer up to end or cancel.
C28_StartActionPaired ==
    [][/\ InitializeStep => action = NoAction
       /\ FinishStep => action # NoAction /\ action' = NoAction
       /\ gesture.kind = "none" => action = NoAction]_vars

\* the same for the gestures in which the handler receives every pointer up
C28_PairedWhenPointerUpArrives ==
    [][/\ (InitializeStep /\ gesture.kind # "ellipseheld") => action = NoAction
       /\ FinishStep => action # NoAction /\ action' = NoAction
       /\ gesture.kind = "none" => action = NoAction]_vars

\* ---------------------------------------------------------------- C29
\* a step in which SelectHandler.pointerUp ends an alt-pointer gesture
AltUpStep == gesture.kind \in {"alt", "altesc", "altempty"} /\ gesture'.kind = "none"

\* the actions that were on the undo history at the pointer down of the gesture
\* are all still there, unchanged and in their places
StackKept(before, after) ==
    /\ Len(after) >= Len(before)
    /\ SubSeq(after, 1, Len(before)) = before

\* C29: the pointerUp of an alt-pointer gesture leaves every action that was
\* on the undo history before the pointer down where it was: it is neither
\* undone nor merged, also when the gesture duplicated nothing.
C29_OnlyOwnActionsTouched ==
    [][AltUpStep => StackKept(gesture.g0.undo, undoHistory')]_vars

\* the same for the gestures that began on a shape and duplicated it
C29_OwnActionsWhenDuplicated ==
    [][(AltUpStep /\ gesture.kind # "altempty")
          => StackKept(gesture.g0.undo, undoHistory')]_vars

\* ---------------------------------------------------------------- C30
\* the children of the page
PageChildren(st) == {st.children[Root][i] : i \in 1..Len(st.children[Root])}

\* a pointer up that ends an alt-pointer gesture which duplicated a shape and
\* has no MOVE action to end: there was no pointer move, or Escape cancelled
\* the move
AltUpWithoutMove ==
    /\ gesture.kind \in {"alt", "altesc"}
    /\ gesture'.kind = "none"
    /\ action = NoAction

\* C30: when an alt-pointer gesture duplicated a shape and ends without a MOVE
\* action, pointerUp undoes the DUPLICATE action: the copy, a child of the page
\* until then, is a child of the page no longer, and the undo history is the
\* one from before the gesture.
C30_DuplicateUndoneWithoutMove ==
    [][AltUpWithoutMove =>
          /\ gesture.shape \in PageChildren(store)
          /\ undoHistory = Append(gesture.g0.undo, undoHistory[Len(undoHistory)])
          /\ undoHistory[Len(undoHistory)].name = "DUPLICATE"
          /\ gesture.shape \notin PageChildren(store')
          /\ PageChildren(store') = PageChildren(gesture.g0.store)
          /\ undoHistory' = gesture.g0.undo]_vars

\* an alt-pointer gesture with a pointer move cancelled by Escape has ended:
\* its copy is gone and the undo history, which held an action before the
\* gesture, is as it was
C30_Witness ==
    /\ gesture.kind = "none"
    /\ gesture.last = "undone"
    /\ gesture.moves > 0
    /\ gesture.shape \notin PageChildren(store)
    /\ gesture.g0.undo # <<>>
    /\ undoHistory = gesture.g0.undo
    /\ redoHistory # <<>>
    /\ redoHistory[Len(redoHistory)].name = "DUPLICATE"

\* ---------------------------------------------------------------- C31
\* the mutations of a changeParent of o, whose parent was old, to parent
ChangeParentMuts(muts, o, old, parent) ==
    IF old = NoId
    THEN /\ Len(muts) = 1
         /\ muts[1].type = "INSERT_CHILD" /\ muts[1].obj = o /\ muts[1].parent = parent
    ELSE /\ Len(muts) = 2
         /\ muts[1].type = "REMOVE_CHILD" /\ muts[1].obj = o /\ muts[1].parent = old
         /\ muts[2].type = "INSERT_CHILD" /\ muts[2].obj = o /\ muts[2].parent = parent

\* C31: for every entity o and every non-null parent of the store,
\* changeParent(tx, o, parent) emits REMOVE_CHILD for the old parent of o
\* (when it has one) and then INSERT_CHILD for parent, after which the parent
\* of o is parent and o is in the children of parent and of no other entity;
\* with a null parent it emits no mutation and changes nothing.
C31_ChangeParentOneParent ==
    \A o \in store.idx :
        /\ changeParent(NewTx(store), o, NoId) = NewTx(store)
        /\ \A parent \in store.idx :
              LET tx == changeParent(NewTx(store), o, parent)
              IN  /\ ChangeParentMuts(tx.muts, o, store.parent[o], parent)
                  /\ tx.st.parent[o] = parent
                  /\ \A p \in Ids : Contains(tx.st.children[p], o) <=> p = parent

\* C31 witness: the last action moved a shape from one parent into another
\* with changeParent, and a shape without a parent is in the store as well
C31_Witness ==
    /\ undoHistory # <<>>
    /\ LET muts == Flatten(undoHistory[Len(undoHistory)].txs)
       IN  /\ Len(muts) = 2
           /\ ChangeParentMuts(muts, muts[1].obj, muts[1].parent, muts[2].parent)
           /\ muts[1].parent # muts[2].parent
           /\ store.parent[muts[1].obj] = muts[2].parent
           /\ \A p \in Ids : Contains(store.children[p], muts[1].obj) <=> p = muts[2].parent
    /\ \E o \in store.idx \ {Root} : store.parent[o] = NoId

\* ---------------------------------------------------------------- C32
\* a step that is a call of Editor.activateHandler, and what it added to the
\* hooks called and events emitted
ActivateStep == ui'.n = ui.n + 1
NewCalls == SubSeq(ui'.calls, Len(ui.calls) + 1, Len(ui'.calls))

\* C32: Editor.activateHandler called with an id that is not the id of a
\* handler leaves the editor as it was: the active handler is the same, no
\* hook (the deactivate hook of the active handler included) is called and no
\* event is emitted.
C32_UnknownIdChangesNothing ==
    [][(ActivateStep /\ ui'.id \in UnknownIds) =>
          /\ ui'.activeHandler = ui.activeHandler
          /\ ui'.activeHandlerLock = ui.activeHandlerLock
          /\ NewCalls = <<>>]_vars

\* the part of it that holds: the active handler and the lock stay, no handler
\* is activated and no onActiveHandlerChange event is emitted
C32_UnknownIdKeepsActiveHandler ==
    [][(ActivateStep /\ ui'.id \in UnknownIds) =>
          /\ ui'.activeHandler = ui.activeHandler
          /\ ui'.activeHandlerLock = ui.activeHandlerLock
          /\ \A k \in 1..Len(NewCalls) : NewCalls[k][1] = "onDeactivate"]_vars

\* ---------------------------------------------------------------- C33
\* the calls without the lock events
IsHook(c) == c[1] # "onActiveHandlerLockChange"

\* the handlers that are active by the hooks called: the last hook of the
\* handler was onActivate
ActiveByHooks(calls) ==
    {h \in HandlerIds :
        \E k \in 1..Len(calls) :
            /\ calls[k] = <<"onActivate", h>>
            /\ \A j \in (k + 1)..Len(calls) : calls[j] # <<"onDeactivate", h>>}

\* C33: in a sequence of Editor.activateHandler calls with ids of handlers, a
\* call with the id of the active handler calls no hook and emits no event;
\* any other call deactivates the previous handler (when there is one), then
\* activates the new one, then emits onActiveHandlerChange once; and the
\* handlers active by the hooks called are the active handler alone.
C33_OneActiveHandler ==
    [][ActivateStep =>
          /\ IF ui.activeHandler = ui'.id
             THEN NewCalls = <<>> /\ ui'.activeHandler = ui.activeHandler
             ELSE /\ ui'.activeHandler = ui'.id
                  /\ SelectSeq(NewCalls, IsHook) =
                        (IF ui.activeHandler # NoHandler
                         THEN << <<"onDeactivate", ui.activeHandler>> >> ELSE <<>>)
                        \o << <<"onActivate", ui'.id>>, <<"onActiveHandlerChange", ui'.id>> >>
          /\ ActiveByHooks(ui'.calls) = {ui'.activeHandler} \ {NoHandler}
          /\ Cardinality(ActiveByHooks(ui'.calls)) <= 1]_vars

\* C33 witness: the editor switched from one handler to another and the
\* active handler was activated again after that
C33_Witness ==
    /\ ui.n = 3
    /\ ui.activeHandler = ui.id
    /\ Len(SelectSeq(ui.calls, IsHook)) = 5
    /\ ui.calls[Len(ui.calls)] = <<"onActiveHandlerChange", ui.activeHandler>>
    /\ \E h \in HandlerIds \ {ui.activeHandler} :
          SelectSeq(ui.calls, IsHook)[3] = <<"onDeactivate", h>>

\* ---------------------------------------------------------------- C34
\* C34: the dragging controller of a manipulator is non-null only while that
\* controller is dragging; after a pointer up, and after an Escape that
\* aborts a drag, it is null.
C34_DraggingControllerIsDragging ==
    /\ ui.draggingController # NoController =>
          ui.controller[ui.draggingController].dragging
    /\ (ui.event = "pointerUp" \/ (ui.event = "Escape" /\ ui.handled)) =>
          ui.draggingController = NoController

\* the part of it that holds: it is null after every pointer up, and it is
\* non-null with the controller not dragging only after an Escape
C34_NullAfterPointerUp ==
    /\ ui.event = "pointerUp" => ui.draggingController = NoController
    /\ (ui.draggingController # NoController
            /\ ~ui.controller[ui.draggingController].dragging) =>
          \E k \in 1..Len(ui.calls) : ui.calls[k] = <<"Escape", ui.draggingController>>

\* ---------------------------------------------------------------- C35
\* a step that is an event given to the manipulator
DragStep == ui'.nEvents = ui.nEvents + 1

\* in the calls, every onDrag and onDragEnd of a controller comes after an
\* onDragStart of it with no onDragEnd and no Escape of it in between
WellNested(calls) ==
    \A k \in 1..Len(calls) :
        calls[k][1] \in {"onDrag", "onDragEnd"} =>
            \E j \in 1..(k - 1) :
                /\ calls[j] = <<"onDragStart", calls[k][2]>>
                /\ \A i \in (j + 1)..(k - 1) :
                      calls[i] \notin {<<"onDragEnd", calls[k][2]>>, <<"Escape", calls[k][2]>>}

\* a pointer move or pointer up that reaches no dragging controller is not
\* handled and changes no drag field
IdleUnchanged ==
    (/\ ui'.event \in {"pointerMove", "pointerUp"}
     /\ \/ ui.draggingController = NoController
        \/ ~ui.controller[ui.draggingController].dragging) =>
        ~ui'.handled /\ ui'.controller = ui.controller /\ ui'.calls = ui.calls

\* after a pointer up or an Escape the controller the event was given to is
\* not dragging and its drag points and deltas are those of reset()
ResetAfterEnd ==
    /\ (ui'.event = "pointerUp" /\ ui.draggingController # NoController) =>
          ui'.controller[ui.draggingController] = ResetController
    /\ ui'.event = "Escape" =>
          \A c \in ControllerIds :
              (\E k \in (Len(ui.calls) + 1)..Len(ui'.calls) : ui'.calls[k] = <<"Escape", c>>)
                  => ui'.controller[c] = ResetController

\* C35: for every sequence of pointer and key events, onDrag and onDragEnd are
\* emitted only after an onDragStart with no onDragEnd or Escape in between;
\* a pointer move or pointer up while not dragging is not handled and changes
\* no drag field; after a pointer up or an Escape the controller is not
\* dragging and all its drag points and deltas are reset.
C35_DragWellNested ==
    [][DragStep => (WellNested(ui'.calls) /\ IdleUnchanged /\ ResetAfterEnd)]_vars

\* the same with the reset required only after a pointer up of Mouse.BUTTON1
C35_WellNestedPrimaryButton ==
    [][DragStep =>
          /\ WellNested(ui'.calls)
          /\ IdleUnchanged
          /\ (ui'.event = "pointerUp" /\ ui'.handled) =>
                ui'.controller[ui.draggingController] = ResetController
          /\ ui'.event = "Escape" =>
                \A c \in ControllerIds :
                    (\E k \in (Len(ui.calls) + 1)..Len(ui'.calls) :
                        ui'.calls[k] = <<"Escape", c>>) => ui'.controller[c] = ResetController
          /\ \A c \in ControllerIds :
                ~ui'.controller[c].dragging => ui'.controller[c] = ResetController]_vars

\* ---------------------------------------------------------------- C36
\* the calls of startAction("EDIT_TEXT") and of endAction, in order
SessionCalls(calls) ==
    SelectSeq(calls, LAMBDA c : c = <<"startAction", "EDIT_TEXT">> \/ c[1] = "endAction")

\* every startAction("EDIT_TEXT") is followed by an endAction of that action
\* before the next one
Matched(calls) ==
    LET sc == SessionCalls(calls)
    IN  \A k \in 1..Len(sc) :
            /\ sc[k] = <<"startAction", "EDIT_TEXT">> =>
                  (k < Len(sc) => sc[k + 1] = <<"endAction", "EDIT_TEXT">>)
            /\ sc[k] = <<"endAction", "EDIT_TEXT">> =>
                  (k > 1 /\ sc[k - 1] = <<"startAction", "EDIT_TEXT">>)

\* C36: in a text-editing session no transaction is submitted outside an
\* action (none after the endAction of close()), every open() is matched by
\* exactly one endAction, and open() does not run twice without a close in
\* between.
C36_TransactInsideAction ==
    /\ \A k \in 1..Len(ui.calls) :
          ui.calls[k][1] = "transact" => ui.calls[k][2] # "NONE"
    /\ Matched(ui.calls)
    /\ (ui.textShape # NoId) = (action.name = "EDIT_TEXT")

\* the part of it that holds: the transactions of open() and of update() are
\* submitted while the EDIT_TEXT action is open, and the actions are matched
C36_OpenAndUpdateInsideAction ==
    [][(ui'.nEvents = ui.nEvents + 1 /\ ui'.event \in {"open", "textChange"}) =>
          /\ action'.name = "EDIT_TEXT"
          /\ \A k \in (Len(ui.calls) + 1)..Len(ui'.calls) :
                ui'.calls[k][1] = "transact" => ui'.calls[k][2] = "EDIT_TEXT"
          /\ Matched(ui'.calls)]_vars

\* ---------------------------------------------------------------- C37
\* a step in which the peer that runs the plugin submits a local transaction
\* (an edit or an undo), which its listeners write to its replica
LocalWriteOfP == peerP'.emitted # peerP.emitted

\* C37: what a peer wrote to its replica itself is not decoded back into its
\* store: in a step with a local transaction the callback decodes no event,
\* and the store differs from the one before in the one field the transaction
\* assigned, changed once; the replica holds that value.
C37_LocalWriteNotDecoded ==
    [][LocalWriteOfP =>
          /\ peerP'.events = peerP.events
          /\ peerP'.emitted = peerP.emitted + 1
          /\ \E obj \in DOMAIN peerP.heap :
                LET new == peerP'.heap[obj].val["height"]
                    id == peerP.heap[obj].id
                IN  /\ peerP'.heap = [peerP.heap EXCEPT ![obj].val["height"] = new]
                    /\ new - peerP.heap[obj].val["height"] \in {1, -1}
                    /\ peerP.y.m[id].present =>
                          /\ peerP'.y.m[id].val["height"] = new
                          /\ peerP'.y.m = [peerP.y.m EXCEPT ![id].val["height"] = new]]_vars

\* C37 witness: the peer made a local edit and undid it, both written to its
\* replica, whose field map holds the value of its store
C37_Witness ==
    /\ peerP.emitted = 2
    /\ peerP.undo = <<>>
    /\ peerP.redo # <<>>
    /\ LET act == peerP.redo[Len(peerP.redo)]
           id == peerP.heap[act.obj].id
       IN  /\ peerP.y.m[id].present
           /\ peerP.y.m[id].val["height"] = peerP.heap[act.obj].val["height"]
           /\ act.newValue # act.oldValue

\* ---------------------------------------------------------------- C38
\* the editor after Actions.addPage(position), and after Actions.addPage()
AfterAddPage(position) == ActionsAddPage(CurT, nextId, TRUE, position)
AfterAddPageLast == ActionsAddPage(CurT, nextId, FALSE, 0)

\* the new page is at index `position` of the pages of T, the other pages are
\* those from before in their order, and one ADD_PAGE action was recorded
AddedAt(T, position) ==
    /\ Len(getPages(T.store)) = Len(getPages(store)) + 1
    /\ getPages(T.store)[position + 1] = nextId
    /\ RemoveAt(getPages(T.store), position) = getPages(store)
    /\ T.store.type[nextId] = "Page"
    /\ T.store.parent[nextId] = Root
    /\ Len(T.undo) = Len(undoHistory) + 1
    /\ SubSeq(T.undo, 1, Len(undoHistory)) = undoHistory
    /\ T.undo[Len(T.undo)].name = "ADD_PAGE"
    /\ T.action = NoAction

\* C38: Actions.addPage(position) with 0 <= position <= number of pages leaves
\* the new page at index position, keeps the order of the other pages, and
\* records one ADD_PAGE action; without a position the page is appended last.
C38_AddPageAtPosition ==
    (Idle /\ nextId <= MaxShapes) =>
        /\ \A position \in 0..Len(getPages(store)) : AddedAt(AfterAddPage(position), position)
        /\ AddedAt(AfterAddPageLast, Len(getPages(store)))

\* C38 witness: the third page was added in front of the two others, and the
\* document holds the three pages
C38_Witness ==
    /\ nextId = MaxShapes + 1
    /\ Len(getPages(store)) = 3
    /\ store.children[Root][1] = MaxShapes
    /\ undoHistory # <<>>
    /\ undoHistory[Len(undoHistory)].name = "ADD_PAGE"
    /\ \E k \in 1..Len(undoHistory[Len(undoHistory)].txs[1]) :
          LET m == undoHistory[Len(undoHistory)].txs[1][k]
          IN  m.type = "REORDER_CHILD" /\ m.obj = MaxShapes /\ m.position = 0

\* ---------------------------------------------------------------- C39
\* the lists of one or two shapes that have a parent in the store
UngroupInputs ==
    LET S == {o \in store.idx \ {Root} : store.parent[o] \in store.idx}
    IN  {<<a>> : a \in S} \cup {<<pr[1], pr[2]>> : pr \in {q \in S \X S : q[1] # q[2]}}

\* the elements of sequence s that are in set S, in their order
Sub(s, S) == SelectSeq(s, LAMBDA e : e \in S)

ElemsOf(s) == {s[i] : i \in 1..Len(s)}

\* group g of store st was ungrouped in st2: its children are children of its
\* former parent in the order they had, the other children of that parent
\* keep theirs, and the group is in no children sequence and not in the index
Ungrouped(st, st2, g, groups) ==
    LET kids == ElemsOf(st.children[g])
        par == st.parent[g]
    IN  /\ Sub(st2.children[par], kids) = st.children[g]
        /\ \A c \in kids : st2.parent[c] = par
        /\ Sub(st2.children[par], ElemsOf(st.children[par]) \ groups)
              = Sub(st.children[par], ElemsOf(st.children[par]) \ groups)
        /\ st2.children[g] = <<>>
        /\ g \notin st2.idx
        /\ \A p \in Ids : ~Contains(st2.children[p], g)

\* C39: ungroupShapes moves every child of each group given to the group's
\* former parent, keeping their order, then removes the group from its parent
\* and deletes it; when no group is given it records no mutation.
C39_UngroupKeepsOrder ==
    \A shapes \in UngroupInputs :
        LET groups == {g \in ElemsOf(shapes) : store.type[g] = "Group"}
            tx == ungroupEach(NewTx(store), shapes)
        IN  /\ groups = {} => tx = NewTx(store)
            /\ (\A g \in groups, h \in groups : store.parent[g] # h) =>
                  \A g \in groups : Ungrouped(store, tx.st, g, groups)

\* C39 witness: a group with two children was ungrouped; the two are children
\* of the page in the order they had in the group
C39_Witness ==
    /\ undoHistory # <<>>
    /\ undoHistory[Len(undoHistory)].name = "UNGROUP"
    /\ LET muts == undoHistory[Len(undoHistory)].txs[1]
           ins == SelectSeq(muts, LAMBDA m : m.type = "INSERT_CHILD")
       IN  /\ Len(ins) = 2
           /\ ins[1].parent = Root /\ ins[2].parent = Root
           /\ Sub(store.children[Root], {ins[1].obj, ins[2].obj}) = <<ins[1].obj, ins[2].obj>>
           /\ muts[Len(muts)].type = "DELETE"
           /\ muts[Len(muts)].obj \notin store.idx

====
